---- MODULE Spec2Model ----
(***************************************************************************)
(* Grid effect scheduling of the CyberThree scene.                         *)
(*                                                                         *)
(* The scheduler is the GridEffects component                              *)
(* (components/utils/colors.ts, lines 262-434): a pool of active effects   *)
(* held in React state, a "last effect" ref, an "is playing" ref used as   *)
(* admission gate, one setTimeout per admission that releases the gate,    *)
(* a setInterval that draws a weighted random kind, and a useFrame         *)
(* callback that recomputes the envelope and prunes expired effects.       *)
(*                                                                         *)
(* Time is in milliseconds.  `mono` is the monotonic clock that drives     *)
(* setTimeout / setInterval, `wall` is what Date.now() returns; the two    *)
(* differ after a wall-clock adjustment.  State updates queued with        *)
(* setActiveEffects(prev => ...) are applied in call order, so the pool    *)
(* variable holds the result of applying them in that order.               *)
(***************************************************************************)
EXTENDS Integers, Sequences, FiniteSets, TLC

\* ------------------------------------------------------------------ bounds
\* Horizon of the monotonic clock.
MaxTime == 16000
\* Horizon of the monotonic clock where only the interval admits effects.
LongMaxTime == 24000
\* Horizon of the runs that follow the effect components and the materials.
MatMaxTime == 12000
\* Number of grid lines and horizon of the runs that follow the effect
\* components on lines that may lack mesh, material or userData.
NumLines == 2
LinesMaxTime == 4000
LineDeltas == {2000}
\* Grid construction: significant bits of a Number, the gridWidth /
\* gridDepth and spacing props tried, and the number of lines after which a
\* sweep is no longer followed.
MantissaBits == 4
GridWidths == {4, 10, 24, 32}
GridDepths == {6, 10}
Spacings == {-2, 0, 1, 2, 3, 4, 5, 7}
MaxGridLines == 50
\* Number of triggerEffect calls made from outside the interval.
MaxCalls == 2
\* Largest distance Date.now() may fall behind the monotonic clock.
MaxSkew == 3000
\* Math.random() * totalWeight is drawn in steps of 1/RandRes.
RandRes == 2
\* Amounts by which the clocks advance between callbacks.
Deltas == {1000}
\* Amounts by which a wall-clock adjustment moves Date.now() back.
BackSteps == {3000}
\* Number of frame callbacks of EnergyPulses that may run between two renders.
MaxUnrendered == 2
\* Number of pulses the interval of the fraction-based EnergyPulses spawns.
MaxSpawns == 2
\* Energy pulses: the number of changes of the trigger prop, the values of
\* pulseSpeed * delta per frame and the maxPulses props tried.
MaxTriggers == 2
FrameSteps == {5, 50}
MaxPulsesTried == {2, 75}
\* Envelope evaluation: elapsed ranges over 50 * (-EnvBelow .. EnvAbove).
EnvBelow == 20
EnvAbove == 180
\* Horizon, in seconds, of the time values computeEffect of EffectManager is
\* called with.
ManagerMaxTime == 14
\* IndependentGridEffects: the trigger counters are followed modulo
\* TriggerWrap, the time since the last regular trigger up to MaxSince ms.
TriggerWrap == 3
MaxSince == 6000
\* Horizon, in ms, of the clock of useLineWaveEffect.
WaveMaxTime == 17000

\* --------------------------------------------------------- program constants
EFFECTS_CONFIG ==
  [ gridPulse  |-> [duration |-> 8000, cooldown |-> 4000],
    neonPulse  |-> [duration |-> 3000, cooldown |-> 2000],
    neonRipple |-> [duration |-> 3000, cooldown |-> 2000] ]

effectInterval == 8000

weightedEffects ==
  << <<"gridPulse", 1>>, <<"neonPulse", 2>>, <<"neonRipple", 2>> >>

\* The members of EffectType (types/gridTypes); none is a key of EFFECTS_CONFIG.
EffectType == {"lineWave", "energyPulse", "energyPulseV", "ripple"}

ConfigKinds == DOMAIN EFFECTS_CONFIG

VARIABLES
  activeEffects,   \* useState<ActiveEffect[]>: sequence of [type, startTime, intensity]
  lastEffectRef,   \* useRef<EffectType | null>
  isPlayingRef,    \* useRef(false): the admission gate
  timers,          \* pending gate-release setTimeout deadlines (monotonic), in creation order
  nextTick,        \* monotonic deadline of the setInterval
  mono,            \* monotonic clock
  wall,            \* Date.now()
  raised,          \* "none", or the callback in which a TypeError was thrown
  calls,           \* number of triggerEffect calls made from outside the interval
  lastOp,          \* history: the callback that ran last
  lastArg,         \* history: the kind passed to triggerEffect by that callback, or "none"
  lastDraw,        \* history: the kind that callback drew before the no-repeat rule, or "none"
  didAdmit,        \* history: whether that callback appended an effect to the pool
  lastAdmitted,    \* history: the kind of the most recently admitted effect
  lines,           \* gridLines: per line, the material on the mesh and its fields
  children,        \* the mounted effect components, in the order of activeEffects
  childError,      \* "none", or the effect component in which a TypeError was thrown
  props,           \* Grid: gridWidth, gridDepth, spacing
  grid,            \* Grid: the `lines` array of the useMemo under construction
  phase,           \* Grid: the loop of the useMemo that is running
  sweep,           \* Grid: the loop variable x / z
  envVariant,      \* envelope evaluation: which component's envelope
  envKind,         \* envelope evaluation: the effect kind
  envElapsed,      \* envelope evaluation: currentTime - startTime
  envOut,          \* envelope evaluation: << >> before, << intensity >> after
  pulseProps,      \* EnergyPulsesV: the gridLines and maxPulses props
  pulses,          \* EnergyPulsesV: useState<Pulse[]>
  pulseIdCounter,  \* EnergyPulsesV: useRef(0)
  lastTriggerRef,  \* EnergyPulsesV: useRef(trigger)
  branchings,      \* history: the spawnChildPulses calls made for the pulses in the pool
  lastStep,        \* history: pulseSpeed * delta of the last frame, 0 after a trigger
  pulseMounted,    \* EnergyPulsesV: whether the component is mounted
  groupMeshes,     \* EnergyPulsesV: ids of the pulses whose mesh is a child of the group
  disposed,        \* EnergyPulsesV: ids of the pulses whose geometry and material are disposed
  turnProps,       \* EnergyPulses: the gridLines and maxPulses props and the variant
  turnPulses,      \* EnergyPulses: useState<Pulse[]>, with the queued updaters applied
  turnShown,       \* EnergyPulses: the pulses of the last render, which the callbacks close over
  unrendered,      \* EnergyPulses: the frame callbacks since the last render
  nextSpawnRef,    \* EnergyPulses, timer variant: useRef<number>(0)
  turnTriggerRef,  \* EnergyPulses, trigger variant: useRef(trigger)
  pulsesRef,       \* fraction-based EnergyPulses: useRef<Pulse[]>([])
  pulseCount,      \* fraction-based EnergyPulses: useState<number>(0)
  spawns,          \* fraction-based EnergyPulses: the calls of handleSpawn so far
  cprops,          \* constant-count EnergyPulsesV: the gridLines and maxPulses props
  cpulses,         \* constant-count EnergyPulsesV: useState<PulseV[]>
  activeVerticalPulses,  \* constant-count EnergyPulsesV: useRef(0)
  currentEffect,   \* EffectManager: private currentEffect: Effect | null
  effectStartTime, \* EffectManager: private effectStartTime: number
  lastEffectId,    \* EffectManager: private lastEffectId: string | null
  nextEffectTime,  \* EffectManager: private nextEffectTime: number
  managerTime,     \* EffectManager: params.time of the last computeEffect call
  managerResult,   \* EffectManager: what the last computeEffect call returned
  indepMounted,         \* IndependentGridEffects is mounted
  regularPulseTrigger,  \* IndependentGridEffects: useState(0)
  verticalPulseTrigger, \* IndependentGridEffects: useState(0)
  verticalPulsesState,  \* IndependentGridEffects: const [verticalPulses, ...] = useState(1)
  isRegularActiveRef,   \* IndependentGridEffects: useRef(false)
  isVerticalActiveRef,  \* IndependentGridEffects: useRef(false)
  indepTimers,          \* IndependentGridEffects: the pending setTimeout callbacks, with the ms left
  sinceRegular,         \* IndependentGridEffects: ms since the last regular trigger
  indepOp,              \* IndependentGridEffects: the last callback that ran
  waveOptions,     \* useLineWaveEffect: the options argument
  waves,           \* useLineWaveEffect: useState<WaveState[]>([]), the start times
  renderedWaves,   \* useLineWaveEffect: `waves` of the last render
  spawnClosure,    \* useLineWaveEffect: `waves` of the render whose spawnLineWave the interval calls
  waveNow,         \* useLineWaveEffect: Date.now()
  nextWaveTick     \* useLineWaveEffect: when the interval fires next

svars == << activeEffects, lastEffectRef, isPlayingRef, timers, nextTick,
            mono, wall, raised, calls, lastOp, lastArg, lastDraw, didAdmit,
            lastAdmitted >>

mvars == << lines, children, childError >>

evars == << envVariant, envKind, envElapsed, envOut >>

gvars == << props, grid, phase, sweep >>

pvars == << pulseProps, pulses, pulseIdCounter, lastTriggerRef, branchings,
           lastStep, pulseMounted, groupMeshes, disposed >>

tvars == << turnProps, turnPulses, turnShown, unrendered, nextSpawnRef,
           turnTriggerRef >>

qvars == << pulsesRef, pulseCount, spawns >>

cvars == << cprops, cpulses, activeVerticalPulses >>

xvars == << currentEffect, effectStartTime, lastEffectId, nextEffectTime,
           managerTime, managerResult >>

\* the variables of the effect manager and the trigger chains
ivars == << indepMounted, regularPulseTrigger, verticalPulseTrigger,
           verticalPulsesState, isRegularActiveRef, isVerticalActiveRef,
           indepTimers, sinceRegular, indepOp >>

wvars == << waveOptions, waves, renderedWaves, spawnClosure, waveNow,
           nextWaveTick >>

lvars == << xvars, ivars, wvars >>

\* the variables of the other components
nvars == << qvars, cvars, lvars >>

\* the variables outside the scheduler and its components
fvars == << evars, gvars, pvars, tvars, nvars >>

vars == << svars, mvars, fvars >>

\* ---------------------------------------------------------------- envelope
\* Intensities are rationals <<num, den>> with den > 0.
Zero == <<0, 1>>
One == <<1, 1>>

\* Faulty variant of Clamp01: the lower clamp Math.max(0, ...) is missing.
Clamp01UpperOnly(q) == IF q[1] > q[2] THEN One ELSE q

\* Math.max(0, Math.min(1, q))
Clamp01(q) ==
  LET m == IF q[1] > q[2] THEN One ELSE q      \* Math.min(1, q)
  IN  IF m[1] < 0 THEN Zero ELSE m             \* Math.max(0, m)

\* config.duration * 0.2
FadeTime(type) == (EFFECTS_CONFIG[type].duration * 2) \div 10

\* Faulty variant of RawIntensity: the fade-out ramp rises from the start of the
\* fade-out window instead of falling to the end of the effect.
RawIntensityRisingFadeOut(type, elapsed) ==
  LET duration == EFFECTS_CONFIG[type].duration
      fadeTime == FadeTime(type)
  IN  IF elapsed < fadeTime THEN << elapsed, fadeTime >>
      ELSE IF elapsed > duration - fadeTime
           THEN << elapsed - (duration - fadeTime), fadeTime >>
           ELSE One

\* the intensity before clamping
RawIntensity(type, elapsed) ==
  LET duration == EFFECTS_CONFIG[type].duration
      fadeTime == FadeTime(type)
  IN  IF elapsed < fadeTime THEN << elapsed, fadeTime >>
      ELSE IF elapsed > duration - fadeTime THEN << duration - elapsed, fadeTime >>
      ELSE One

Envelope(type, elapsed) == Clamp01(RawIntensity(type, elapsed))

\* Faulty variant of StillActive: the filter keeps an effect whose elapsed time equals
\* its duration.
StillActiveInclusive(effect, currentTime) ==
  currentTime - effect.startTime <= EFFECTS_CONFIG[effect.type].duration

\* Faulty variant of StillActive: the filter compares the start time, not the elapsed
\* time, with the duration, so an effect started later than `duration` stays.
StillActiveByStart(effect, currentTime) ==
  currentTime - effect.startTime < EFFECTS_CONFIG[effect.type].duration + effect.startTime

\* the .filter predicate of useFrame
StillActive(effect, currentTime) ==
  currentTime - effect.startTime < EFFECTS_CONFIG[effect.type].duration

\* the .map step of useFrame
Recompute(effect, currentTime) ==
  [effect EXCEPT !.intensity = Envelope(effect.type, currentTime - effect.startTime)]

RECURSIVE FilterSeq(_, _)
FilterSeq(s, currentTime) ==
  IF s = << >> THEN << >>
  ELSE IF StillActive(Head(s), currentTime)
       THEN << Head(s) >> \o FilterSeq(Tail(s), currentTime)
       ELSE FilterSeq(Tail(s), currentTime)

\* prev.map(...).filter(...)
UpdatedPool(prev, currentTime) ==
  FilterSeq([i \in 1..Len(prev) |-> Recompute(prev[i], currentTime)], currentTime)

\* ------------------------------------------------------- weighted selection
totalWeight == weightedEffects[1][2] + weightedEffects[2][2] + weightedEffects[3][2]

\* DrawAt without `random -= weight`
RECURSIVE DrawAtNoSubtract(_, _, _)
DrawAtNoSubtract(i, num, den) ==
  IF i > Len(weightedEffects) THEN "gridPulse"
  ELSE IF num <= weightedEffects[i][2] * den THEN weightedEffects[i][1]
       ELSE DrawAtNoSubtract(i + 1, num, den)

\* The for-loop over weightedEffects from entry i on, with random = num / den.
RECURSIVE DrawAt(_, _, _)
DrawAt(i, num, den) ==
  IF i > Len(weightedEffects) THEN "gridPulse"
  ELSE IF num <= weightedEffects[i][2] * den THEN weightedEffects[i][1]
       ELSE DrawAt(i + 1, num - weightedEffects[i][2] * den, den)

\* The for-loop over weightedEffects; `random` is scaled by RandRes.
DrawFrom(i, random) == DrawAt(i, random, RandRes)

WeightedDraw(random) == DrawFrom(1, random)

\* FirstOther with the last entry that differs in place of the first
LastOther(selected) ==
  LET idx == { i \in 1..Len(weightedEffects) : weightedEffects[i][1] # selected }
  IN  IF idx = {} THEN "gridPulse"
      ELSE weightedEffects[CHOOSE i \in idx : \A j \in idx : i >= j][1]

\* weightedEffects.find(([effect]) => effect !== selected)?.[0] || "gridPulse"
FirstOther(selected) ==
  LET idx == { i \in 1..Len(weightedEffects) : weightedEffects[i][1] # selected }
  IN  IF idx = {} THEN "gridPulse"
      ELSE weightedEffects[CHOOSE i \in idx : \A j \in idx : i <= j][1]

\* Faulty variant of SelectEffect: the no-repeat substitution is missing.
SelectEffectNoSubstitute(random, last) == WeightedDraw(random)

\* "Don't play the same effect twice in a row"
SelectEffect(random, last) ==
  LET selected == WeightedDraw(random)
  IN  IF selected = last THEN FirstOther(selected) ELSE selected

\* ------------------------------------------------------------------ actions
SchedInit ==
  /\ activeEffects = << >>
  /\ lastEffectRef = "null"
  /\ isPlayingRef = FALSE
  /\ timers = << >>
  /\ nextTick = effectInterval
  /\ mono = 0
  /\ wall = 0
  /\ raised = "none"
  /\ calls = 0
  /\ lastOp = "init"
  /\ lastArg = "none"
  /\ lastDraw = "none"
  /\ didAdmit = FALSE
  /\ lastAdmitted = "null"

Running == raised # "useFrame" /\ childError = "none"

\* Faulty variant of TriggerBody: lastEffectRef is written before the gate is checked.
TriggerBodyRecordFirst(type) ==
  IF isPlayingRef
  THEN /\ lastEffectRef' = type
       /\ UNCHANGED << activeEffects, isPlayingRef, timers, raised >>
  ELSE /\ isPlayingRef' = TRUE
       /\ lastEffectRef' = type
       /\ activeEffects' =
            Append(activeEffects, [type |-> type, startTime |-> wall, intensity |-> Zero])
       /\ timers' = Append(timers, mono + EFFECTS_CONFIG[type].duration)
       /\ UNCHANGED raised

\* Faulty variant of TriggerBody: the setTimeout call is missing.
TriggerBodyNoTimer(type) ==
  IF isPlayingRef
  THEN UNCHANGED << activeEffects, lastEffectRef, isPlayingRef, timers, raised >>
  ELSE /\ isPlayingRef' = TRUE
       /\ lastEffectRef' = type
       /\ activeEffects' =
            Append(activeEffects, [type |-> type, startTime |-> wall, intensity |-> Zero])
       /\ UNCHANGED << timers, raised >>

\* Faulty variant of TriggerBody: `if (isPlayingRef.current) return` is missing.
TriggerBodyUngated(type) ==
  /\ isPlayingRef' = TRUE
  /\ lastEffectRef' = type
  /\ activeEffects' =
       Append(activeEffects, [type |-> type, startTime |-> wall, intensity |-> Zero])
  /\ IF type \in ConfigKinds
     THEN /\ timers' = Append(timers, mono + EFFECTS_CONFIG[type].duration)
          /\ UNCHANGED raised
     ELSE /\ raised' = "triggerEffect"
          /\ UNCHANGED timers

\* The body of triggerEffect(type); the caller sets the history variables.
TriggerBody(type) ==
  IF isPlayingRef
  THEN UNCHANGED << activeEffects, lastEffectRef, isPlayingRef, timers, raised >>
  ELSE /\ isPlayingRef' = TRUE
       /\ lastEffectRef' = type
       /\ activeEffects' =
            Append(activeEffects, [type |-> type, startTime |-> wall, intensity |-> Zero])
       /\ IF type \in ConfigKinds
          THEN /\ timers' = Append(timers, mono + EFFECTS_CONFIG[type].duration)
               /\ UNCHANGED raised
          ELSE \* EFFECTS_CONFIG[type] is undefined: reading .duration throws
               \* before setTimeout is called
               /\ raised' = "triggerEffect"
               /\ UNCHANGED timers

\* History of admissions, read off the pool before and after the callback.
Admission ==
  /\ didAdmit' = (Len(activeEffects') > Len(activeEffects))
  /\ lastAdmitted' =
       IF Len(activeEffects') > Len(activeEffects)
       THEN activeEffects'[Len(activeEffects')].type
       ELSE lastAdmitted

NoAdmission == didAdmit' = FALSE /\ UNCHANGED lastAdmitted

\* A call of triggerEffect from outside the interval.
TriggerEffect(type) ==
  /\ Running
  /\ calls < MaxCalls
  /\ calls' = calls + 1
  /\ TriggerBody(type)
  /\ lastOp' = "triggerEffect"
  /\ lastArg' = type
  /\ lastDraw' = "none"
  /\ Admission
  /\ UNCHANGED << nextTick, mono, wall >>

\* The setInterval callback.
IntervalTick(random) ==
  /\ Running
  /\ mono >= nextTick
  /\ nextTick' = nextTick + effectInterval
  /\ lastOp' = "interval"
  /\ IF isPlayingRef
     THEN /\ lastArg' = "none"
          /\ lastDraw' = "none"
          /\ UNCHANGED << activeEffects, lastEffectRef, isPlayingRef, timers, raised >>
     ELSE LET selectedEffect == SelectEffect(random, lastEffectRef)
          IN  /\ TriggerBody(selectedEffect)
              /\ lastArg' = selectedEffect
              /\ lastDraw' = WeightedDraw(random)
  /\ Admission
  /\ UNCHANGED << mono, wall, calls >>

RemoveAt(s, i) == [j \in 1..(Len(s) - 1) |-> IF j < i THEN s[j] ELSE s[j + 1]]

\* The setTimeout callback of one admission.
GateRelease(i) ==
  /\ i \in 1..Len(timers)
  /\ mono >= timers[i]
  /\ isPlayingRef' = FALSE
  /\ timers' = RemoveAt(timers, i)
  /\ lastOp' = "release"
  /\ lastArg' = "none"
  /\ lastDraw' = "none"
  /\ NoAdmission
  /\ UNCHANGED << activeEffects, lastEffectRef, nextTick, mono, wall, raised, calls >>

\* The useFrame callback.
Frame ==
  /\ Running
  /\ lastOp' = "useFrame"
  /\ lastArg' = "none"
  /\ lastDraw' = "none"
  /\ NoAdmission
  /\ IF \A i \in 1..Len(activeEffects) : activeEffects[i].type \in ConfigKinds
     THEN /\ activeEffects' = UpdatedPool(activeEffects, wall)
          /\ UNCHANGED raised
     ELSE \* config is undefined: config.duration throws inside the updater
          /\ raised' = "useFrame"
          /\ UNCHANGED activeEffects
  /\ UNCHANGED << lastEffectRef, isPlayingRef, timers, nextTick, mono, wall, calls >>

\* A timer callback whose deadline has passed is waiting to run.
TimerDue ==
  \/ Running /\ mono >= nextTick
  \/ \E i \in 1..Len(timers) : mono >= timers[i]

\* Time passes up to `horizon`; callbacks that are due run before the clock
\* moves on.
AdvanceWithin(d, horizon) ==
  /\ ~TimerDue
  /\ mono + d <= horizon
  /\ mono' = mono + d
  /\ wall' = wall + d
  /\ lastOp' = "advance"
  /\ lastArg' = "none"
  /\ lastDraw' = "none"
  /\ NoAdmission
  /\ UNCHANGED << activeEffects, lastEffectRef, isPlayingRef, timers, nextTick, raised, calls >>

Advance(d) == AdvanceWithin(d, MaxTime)

AdvanceLong(d) == AdvanceWithin(d, LongMaxTime)

AdvanceMat(d) == AdvanceWithin(d, MatMaxTime)

\* The wall clock is set back.
ClockBack(d) ==
  /\ (mono - wall) + d <= MaxSkew
  /\ wall' = wall - d
  /\ lastOp' = "clockBack"
  /\ lastArg' = "none"
  /\ lastDraw' = "none"
  /\ NoAdmission
  /\ UNCHANGED << activeEffects, lastEffectRef, isPlayingRef, timers, nextTick, mono, raised, calls >>

\* ---------------------------------------------------- effect components
\* The components GridEffects renders for the pool (colors.ts 399-431):
\* GridPulse, NeonPulse and NeonRipple, each keyed by type and startTime.
\* React renders and commits after the callback that changed the pool; the
\* model mounts and unmounts within that callback's step.
\*
\* A colour is a brightness level in tenths of the colour createTube computed
\* for the line; OtherHue stands for every colour that is not a multiple of
\* it.  A line holds the material objects made for it, keyed << >> for the
\* MeshStandardMaterial of createTube and << t >> for the ShaderMaterial of
\* the NeonRipple started at t, and the key of the one that is on the mesh.

\* The grid lines effects are rendered on.
GridLines == {1}

\* createTube: const color = getCyberpunkColor(fraction)
BaseColor == 10
\* createTube: color.clone().multiplyScalar(0.5), emissive: color.clone(),
\* emissiveIntensity: 1.0
RestColor == 5
RestEmissive == 10
RestEmissiveIntensity == 10
\* new Color()
Black == 0
\* a lerp towards primaryColor / secondaryColor of NeonPulse
OtherHue == -1
\* a property the object does not have
Undefined == -2

StdMaterial == << >>
ShaderMaterial(id) == << id >>
\* line.mesh.material is null or undefined
NoMaterial == << Undefined >>

\* NeonPulse and NeonRipple: the `duration` prop, which GridEffects leaves at
\* its default
NeonPulseDuration == 3000
NeonRippleDuration == 4000

\* Values of one frame: brightnessFactor = 0.3 + pulse * intensity and
\* emissiveFactor = 0.5 + pulse * 1.5 * intensity * bloomStrength of
\* GridPulse (in tenths), the lerp factor and the intensity gain of NeonPulse.
FrameChoices ==
  [ brightnessFactor : {3, 5}, emissiveFactor : {5, 10},
    npMix : BOOLEAN, npBoost : {0, 5} ]

\* color.multiplyScalar(factor), factor in tenths
multiplyScalar(color, factor) == (color * factor) \div 10

\* The line createTube builds.
createTube ==
  [ mesh |-> TRUE,
    material |-> StdMaterial,
    objects |-> (StdMaterial :>
                   [color |-> multiplyScalar(BaseColor, 5), emissive |-> BaseColor,
                    emissiveIntensity |-> RestEmissiveIntensity]),
    userData |-> [baseColor |-> BaseColor, emissiveBase |-> BaseColor] ]

MatInit ==
  /\ lines = [l \in GridLines |-> createTube]
  /\ children = << >>
  /\ childError = "none"

\* line?.mesh?.material
HasMaterial(ln) == ln.mesh /\ ln.material # NoMaterial

\* userData.baseColor && userData.emissiveBase
HasBase(ln) ==
  ln.mesh /\ ln.userData.baseColor # Undefined /\ ln.userData.emissiveBase # Undefined

\* line.mesh.material
Material(ln) == ln.objects[ln.material]

\* NeonPulse getMaterial: null without mesh or material; a material without
\* emissive gets new Color().
getMaterial(ln) ==
  IF HasMaterial(ln) /\ Material(ln).emissive = Undefined
  THEN [ln EXCEPT !.objects[ln.material].emissive = Black]
  ELSE ln

\* NeonPulse safeUpdateMaterial
safeUpdateMaterial(ln, newColor, newIntensity) ==
  IF ~HasMaterial(ln) \/ Material(ln).emissive = Undefined THEN ln
  ELSE [ln EXCEPT !.objects[ln.material].emissive = newColor,
                  !.objects[ln.material].emissiveIntensity = newIntensity]

\* The first index in 1..n at which P holds, n + 1 if there is none.
FirstIndex(n, P(_)) ==
  IF \E i \in 1..n : P(i) THEN CHOOSE i \in 1..n : P(i) /\ \A j \in 1..(i - 1) : ~P(j)
  ELSE n + 1

\* gridLines.forEach(f) where the callback throws at index bad: the lines
\* before it are processed, the others are not reached.
ForEachBefore(ls, bad, f(_, _)) ==
  [l \in DOMAIN ls |-> IF l < bad THEN f(l, ls[l]) ELSE ls[l]]

\* NeonRipple useMemo, first loop: a line without mesh or material, or without
\* baseColor / emissiveBase, gets no ShaderMaterial.
RippleSkips(ln) == ~HasMaterial(ln) \/ ~HasBase(ln)

\* The index at which the first render of a component throws, Len(ls) + 1 if
\* it does not: GridPulse's useEffect calls material.color.clone() and
\* material.emissive.clone() on every line that has a material; NeonRipple's
\* second loop reads shader.uniforms of every line.
MountThrowsAt(type, ls) ==
  CASE type = "gridPulse" ->
         FirstIndex(Len(ls), LAMBDA i :
           HasMaterial(ls[i]) /\ (Material(ls[i]).color = Undefined
                                  \/ Material(ls[i]).emissive = Undefined))
    [] type = "neonRipple" -> FirstIndex(Len(ls), LAMBDA i : RippleSkips(ls[i]))
    [] OTHER -> Len(ls) + 1

\* The line after a component rendered for the first time: NeonPulse's
\* useMemo goes through getMaterial, NeonRipple's useMemo creates its
\* ShaderMaterial and puts it on the mesh.
MountLine(type, startTime, ln) ==
  CASE type = "neonPulse" -> getMaterial(ln)
    [] type = "neonRipple" ->
         [ln EXCEPT
            !.material = ShaderMaterial(startTime),
            !.objects = (ShaderMaterial(startTime) :>
                           [color |-> Undefined, emissive |-> Undefined,
                            emissiveIntensity |-> Undefined]) @@ ln.objects]
    [] OTHER -> ln

\* GridPulse useEffect: originalMaterials, one entry per line that has a
\* material (filter, then map).
GridPulseOriginals(ls) ==
  LET withMaterial == SelectSeq([i \in 1..Len(ls) |-> i], LAMBDA i : HasMaterial(ls[i]))
  IN  [k \in 1..Len(withMaterial) |->
         [color |-> Material(ls[withMaterial[k]]).color,
          emissive |-> Material(ls[withMaterial[k]]).emissive]]

\* The refs a component fills when it mounts; before is the lines as the
\* component found them, after as MountLine left them.
NewChild(type, startTime, before, after) ==
  [ type |-> type,
    startTime |-> startTime,
    \* GridPulse useEffect: originalMaterials (color, emissive);
    \* NeonRipple useMemo: originalMaterials[index] = line.mesh.material
    originalMaterials |->
      CASE type = "gridPulse" -> GridPulseOriginals(before)
        [] type = "neonRipple" -> [l \in DOMAIN before |-> before[l].material]
        [] OTHER -> << >>,
    \* NeonPulse useMemo: safeCloneColor(material?.emissive)
    originalEmissiveColors |->
      IF type = "neonPulse"
      THEN [l \in DOMAIN after |->
              IF HasMaterial(after[l]) THEN Material(after[l]).emissive ELSE Black]
      ELSE << >>,
    \* NeonPulse useMemo: material?.emissiveIntensity ?? 0
    originalEmissiveIntensities |->
      IF type = "neonPulse"
      THEN [l \in DOMAIN before |->
              IF HasMaterial(before[l]) /\ Material(before[l]).emissiveIntensity # Undefined
              THEN Material(before[l]).emissiveIntensity ELSE 0]
      ELSE << >> ]

\* GridPulse cleanup on line l: material.color.copy(original.color) and
\* material.emissive.copy(original.emissive) when the line has a material and
\* originalMaterials has an entry at the line's index.
GridPulseRestores(child, l, ln) ==
  HasMaterial(ln) /\ l <= Len(child.originalMaterials)

\* The index at which the restore of a component throws, Len(ls) + 1 if it
\* does not: GridPulse copies into material.color and material.emissive,
\* NeonRipple assigns line.mesh.material.
RestoreThrowsAt(child, ls) ==
  CASE child.type = "gridPulse" ->
         FirstIndex(Len(ls), LAMBDA i :
           GridPulseRestores(child, i, ls[i])
             /\ (Material(ls[i]).color = Undefined \/ Material(ls[i]).emissive = Undefined))
    [] child.type = "neonRipple" -> FirstIndex(Len(ls), LAMBDA i : ~ls[i].mesh)
    [] OTHER -> Len(ls) + 1

\* The restore a component performs on line l (at unmount, and NeonPulse and
\* NeonRipple also in the frame where progress === 1).
RestoreLine(child, l, ln) ==
  CASE child.type = "gridPulse" ->
         IF GridPulseRestores(child, l, ln)
         THEN [ln EXCEPT !.objects[ln.material].color = child.originalMaterials[l].color,
                         !.objects[ln.material].emissive = child.originalMaterials[l].emissive]
         ELSE ln
    [] child.type = "neonPulse" ->
         safeUpdateMaterial(getMaterial(ln), child.originalEmissiveColors[l],
                            child.originalEmissiveIntensities[l])
    [] child.type = "neonRipple" -> [ln EXCEPT !.material = child.originalMaterials[l]]
    [] OTHER -> ln

\* Faulty variant of ChildFrameLine: GridPulse scales userData.baseColor and
\* userData.emissiveBase in place (multiplyScalar without clone()).
ChildFrameLineInPlace(child, l, ln, now, ch) ==
  IF child.type = "gridPulse" /\ HasBase(ln) /\ HasMaterial(ln)
  THEN [ln EXCEPT
          !.userData.baseColor = multiplyScalar(@, ch.brightnessFactor),
          !.userData.emissiveBase = multiplyScalar(@, ch.emissiveFactor),
          !.objects[ln.material].color =
             IF @ = Undefined THEN @
             ELSE multiplyScalar(ln.userData.baseColor, ch.brightnessFactor),
          !.objects[ln.material].emissive =
             IF @ = Undefined THEN @
             ELSE multiplyScalar(ln.userData.emissiveBase, ch.emissiveFactor)]
  ELSE ln

\* Faulty variant of ChildFrameLine: GridPulse scales the colour the material
\* displays instead of userData.baseColor / userData.emissiveBase.
ChildFrameLineFromDisplayed(child, l, ln, now, ch) ==
  IF child.type = "gridPulse" /\ HasBase(ln) /\ HasMaterial(ln)
  THEN [ln EXCEPT
          !.objects[ln.material].color =
             IF @ = Undefined THEN @ ELSE multiplyScalar(@, ch.brightnessFactor),
          !.objects[ln.material].emissive =
             IF @ = Undefined THEN @ ELSE multiplyScalar(@, ch.emissiveFactor)]
  ELSE ln

\* The useFrame callback of one component on line l.
ChildFrameLine(child, l, ln, now, ch) ==
  CASE child.type = "gridPulse" ->
         IF HasBase(ln) /\ HasMaterial(ln)
         THEN [ln EXCEPT
                 !.objects[ln.material].color =
                    IF @ = Undefined THEN @
                    ELSE multiplyScalar(ln.userData.baseColor, ch.brightnessFactor),
                 !.objects[ln.material].emissive =
                    IF @ = Undefined THEN @
                    ELSE multiplyScalar(ln.userData.emissiveBase, ch.emissiveFactor)]
         ELSE ln
    [] child.type = "neonPulse" ->
         LET written ==
               safeUpdateMaterial(getMaterial(ln),
                 IF ch.npMix THEN OtherHue ELSE child.originalEmissiveColors[l],
                 child.originalEmissiveIntensities[l] + ch.npBoost)
         IN  IF now - child.startTime >= NeonPulseDuration
             THEN RestoreLine(child, l, written)
             ELSE written
    [] child.type = "neonRipple" ->
         IF now - child.startTime >= NeonRippleDuration
         THEN RestoreLine(child, l, ln)
         ELSE ln
    [] OTHER -> ln

\* The index at which the useFrame callback of a component throws: the
\* progress === 1 loop of NeonRipple assigns line.mesh.material.
FrameThrowsAt(child, ls, now) ==
  IF child.type = "neonRipple" /\ now - child.startTime >= NeonRippleDuration
  THEN RestoreThrowsAt(child, ls)
  ELSE Len(ls) + 1

\* The useFrame callbacks of the mounted components, in mount order; a
\* callback that throws ends the frame.
RECURSIVE FrameWrites(_, _, _, _)
FrameWrites(cs, ls, now, ch) ==
  IF cs = << >> THEN [lines |-> ls, error |-> "none"]
  ELSE LET bad == FrameThrowsAt(Head(cs), ls, now)
           written == ForEachBefore(ls, bad, LAMBDA l, ln : ChildFrameLine(Head(cs), l, ln, now, ch))
       IN  IF bad <= Len(ls) THEN [lines |-> written, error |-> Head(cs).type]
           ELSE FrameWrites(Tail(cs), written, now, ch)

\* The cleanups of the components that leave the tree, in order; a cleanup
\* that throws ends the commit.
RECURSIVE Cleanups(_, _)
Cleanups(cs, ls) ==
  IF cs = << >> THEN [lines |-> ls, error |-> "none"]
  ELSE LET bad == RestoreThrowsAt(Head(cs), ls)
           restored == ForEachBefore(ls, bad, LAMBDA l, ln : RestoreLine(Head(cs), l, ln))
       IN  IF bad <= Len(ls) THEN [lines |-> restored, error |-> Head(cs).type]
           ELSE Cleanups(Tail(cs), restored)

\* activeEffects.map renders one component per pool entry, keyed by type and
\* startTime.
InPool(child, pool) ==
  \E j \in 1..Len(pool) :
    pool[j].type = child.type /\ pool[j].startTime = child.startTime

RECURSIVE Kept(_, _, _)
Kept(cs, pool, keep) ==
  IF cs = << >> THEN << >>
  ELSE IF InPool(Head(cs), pool) = keep
       THEN << Head(cs) >> \o Kept(Tail(cs), pool, keep)
       ELSE Kept(Tail(cs), pool, keep)

\* The lines with the material objects that are still referenced: the one on
\* the mesh and those in the originalMaterials of a mounted NeonRipple.
Reachable(ls, cs) ==
  [l \in DOMAIN ls |->
     LET held == { cs[i].originalMaterials[l] :
                     i \in { k \in 1..Len(cs) : cs[k].type = "neonRipple" } }
         keys == (held \cup {ls[l].material}) \cap DOMAIN ls[l].objects
     IN  [ls[l] EXCEPT !.objects = [k \in keys |-> ls[l].objects[k]]]]

\* The first render and commit of a component of the given type.
Mounted(type, startTime) ==
  LET bad == MountThrowsAt(type, lines)
      after == ForEachBefore(lines, bad, LAMBDA l, ln : MountLine(type, startTime, ln))
      throws == bad <= Len(lines)
      mounted == IF throws THEN children
                 ELSE Append(children, NewChild(type, startTime, lines, after))
  IN  /\ lines' = Reachable(after, mounted)
      /\ children' = mounted
      /\ childError' = IF throws THEN type ELSE "none"

\* A component mounts for the effect the callback appended to the pool.
MountChild ==
  LET effect == activeEffects'[Len(activeEffects')]
  IN  Mounted(effect.type, effect.startTime)

\* One rendered frame: the components' useFrame callbacks run, then React
\* commits the pruned pool and the components of removed effects unmount.
FrameChildren ==
  \E ch \in FrameChoices :
    LET written == FrameWrites(children, lines, wall, ch)
        result == IF written.error # "none" THEN written
                  ELSE Cleanups(Kept(children, activeEffects', FALSE), written.lines)
        kept == Kept(children, activeEffects', TRUE)
    IN  /\ lines' = Reachable(result.lines, kept)
        /\ children' = kept
        /\ childError' = result.error

\* What the effect components do in the step of a scheduler callback.
Components ==
  IF lastOp' = "useFrame" /\ raised' = "none" THEN FrameChildren
  ELSE IF Len(activeEffects') > Len(activeEffects) THEN MountChild
  ELSE UNCHANGED mvars

\* ------------------------------------------------ components on any lines
\* The effect components and the line hooks on a gridLines array whose
\* entries may lack a mesh, a material or the userData colours.

LineShapes ==
  { createTube,
    [createTube EXCEPT !.mesh = FALSE],
    [createTube EXCEPT !.material = NoMaterial],
    [createTube EXCEPT !.userData = [baseColor |-> Undefined, emissiveBase |-> Undefined]] }

LinesInit ==
  /\ lines \in [1..NumLines -> LineShapes]
  /\ children = << >>
  /\ childError = "none"

\* updateLineWaves throws on a line where line.mesh.material.emissive.copy or
\* .color.copy cannot be evaluated.
LineWaveThrows(ln) ==
  \/ ~HasMaterial(ln)
  \/ ~HasBase(ln)
  \/ Material(ln).emissive = Undefined
  \/ Material(ln).color = Undefined

\* updateLineWaves, first loop: reset the line to its base state.
LineWaveReset(ln) ==
  [ln EXCEPT !.objects[ln.material].emissive = ln.userData.emissiveBase,
             !.objects[ln.material].color = multiplyScalar(ln.userData.baseColor, 5)]

\* updateLineWaves, second loop: a wave whose ring is within waveWidth of the
\* line lerps emissive and color towards wave.color.
LineWaveApply(ln, hit) ==
  IF hit THEN [ln EXCEPT !.objects[ln.material].emissive = OtherHue,
                         !.objects[ln.material].color = OtherHue]
  ELSE ln

\* useLineWaveEffect: one call of updateLineWaves.
updateLineWaves(ls, hits) ==
  LET bad == FirstIndex(Len(ls), LAMBDA i : LineWaveThrows(ls[i]))
      reset == ForEachBefore(ls, bad, LAMBDA l, ln : LineWaveReset(ln))
  IN  IF bad <= Len(ls) THEN [lines |-> reset, error |-> "useLineWaveEffect"]
      ELSE [lines |-> [l \in DOMAIN ls |-> LineWaveApply(reset[l], hits[l])],
            error |-> "none"]

\* useGridPulseEffect throws on a mesh with baseColor where
\* emissiveBase.clone() or the assignment to obj.material cannot be evaluated.
GridPulseHookThrows(ln) ==
  ln.mesh /\ ln.userData.baseColor # Undefined
    /\ (ln.userData.emissiveBase = Undefined \/ ln.material = NoMaterial)

\* useGridPulseEffect on one mesh; pulse in tenths.
GridPulseHookLine(ln, pulse) ==
  IF ln.mesh /\ ln.userData.baseColor # Undefined
  THEN [ln EXCEPT
          !.objects[ln.material].color = multiplyScalar(ln.userData.baseColor, 3 + pulse),
          !.objects[ln.material].emissive =
             multiplyScalar(ln.userData.emissiveBase, 5 + (pulse * 15) \div 10)]
  ELSE ln

\* useGridPulseEffect: one frame.
useGridPulseEffect(ls, pulse) ==
  LET bad == FirstIndex(Len(ls), LAMBDA i : GridPulseHookThrows(ls[i]))
  IN  [lines |-> ForEachBefore(ls, bad, LAMBDA l, ln : GridPulseHookLine(ln, pulse)),
       error |-> IF bad <= Len(ls) THEN "useGridPulseEffect" ELSE "none"]

\* sin-based pulse of useGridPulseEffect, in tenths
PulseValues == {0, 10}

\* A parent that shows one effect at a time renders a component of the given
\* type.
MountComponent(type) ==
  /\ childError = "none"
  /\ children = << >>
  /\ Mounted(type, wall)
  /\ UNCHANGED svars

\* One rendered frame of the mounted components.
ComponentFrames ==
  /\ childError = "none"
  /\ children # << >>
  /\ \E ch \in FrameChoices :
       LET written == FrameWrites(children, lines, wall, ch)
       IN  /\ lines' = Reachable(written.lines, children)
           /\ childError' = written.error
  /\ UNCHANGED << children, svars >>

\* The parent stops rendering the i-th component.
UnmountComponent(i) ==
  /\ childError = "none"
  /\ LET result == Cleanups(<< children[i] >>, lines)
         rest == [k \in 1..(Len(children) - 1) |->
                    IF k < i THEN children[k] ELSE children[k + 1]]
     IN  /\ lines' = Reachable(result.lines, rest)
         /\ children' = rest
         /\ childError' = result.error
  /\ UNCHANGED svars

\* One frame of useLineWaveEffect.
LineWaveFrame ==
  /\ childError = "none"
  /\ \E hits \in [DOMAIN lines -> BOOLEAN] :
       LET result == updateLineWaves(lines, hits)
       IN  /\ lines' = result.lines
           /\ childError' = result.error
  /\ UNCHANGED << children, svars >>

\* One frame of useGridPulseEffect.
GridPulseHookFrame ==
  /\ childError = "none"
  /\ \E pulse \in PulseValues :
       LET result == useGridPulseEffect(lines, pulse)
       IN  /\ lines' = result.lines
           /\ childError' = result.error
  /\ UNCHANGED << children, svars >>

AdvanceLines(d) == AdvanceWithin(d, LinesMaxTime) /\ UNCHANGED mvars

\* ------------------------------------------------------ grid construction
\* The useMemo of Grid (Grid/index.tsx 21-131).  Coordinates are Numbers:
\* here integers in a fixed unit, and a sum is rounded to MantissaBits
\* significant bits, to nearest, ties to even, as the sum of two doubles is
\* rounded to 53.  The loops are followed one iteration per step, because a
\* sweep need not end.  Line indices start at 1 (at 0 in the code).

\* The spacing between neighbouring Numbers around the magnitude a.
RECURSIVE Ulp(_)
Ulp(a) == IF a < 2 ^ MantissaBits THEN 1 ELSE 2 * Ulp(a \div 2)

\* The Number nearest to the integer v.
RoundToNumber(v) ==
  LET a == IF v < 0 THEN 0 - v ELSE v
      q == Ulp(a)
      lo == (a \div q) * q
      r == a - lo
      near == IF 2 * r < q THEN lo
              ELSE IF 2 * r > q THEN lo + q
              ELSE IF (lo \div q) % 2 = 0 THEN lo ELSE lo + q
  IN  IF v < 0 THEN 0 - near ELSE near

\* x += spacing
NumberAdd(x, y) == RoundToNumber(x + y)

\* The props Grid is rendered with; widths and depths are even so that
\* gridWidth / 2 is a whole number of units.
GridPropsTried ==
  { p \in [ gridWidth : GridWidths, gridDepth : GridDepths, spacing : Spacings ] :
      /\ RoundToNumber(p.gridWidth \div 2) = p.gridWidth \div 2
      /\ RoundToNumber(p.gridDepth \div 2) = p.gridDepth \div 2
      /\ RoundToNumber(p.spacing) = p.spacing }

GridInit ==
  /\ props \in GridPropsTried
  /\ grid = << >>
  /\ phase = "vertical"
  /\ sweep = 0 - (props.gridWidth \div 2)

\* Grid is not rendered.
GridIdle ==
  /\ props = [gridWidth |-> 0, gridDepth |-> 0, spacing |-> 0]
  /\ grid = << >>
  /\ phase = "idle"
  /\ sweep = 0

\* lines.push({ isVertical: true, ... }) and lines.push({ isVertical: false, ... })
NewLine(isVertical, coordinate, length) ==
  [ isVertical |-> isVertical,
    coordinate |-> coordinate,
    start |-> 0 - (length \div 2),
    end |-> length \div 2,
    length |-> length,
    intersections |-> << >> ]

\* 1) Create vertical lines: one iteration of the for loop, or its exit.
SweepVertical ==
  /\ phase = "vertical"
  /\ IF sweep <= props.gridWidth \div 2
     THEN /\ Len(grid) < MaxGridLines
          /\ grid' = Append(grid, NewLine(TRUE, sweep, props.gridDepth))
          /\ sweep' = NumberAdd(sweep, props.spacing)
          /\ phase' = phase
     ELSE /\ phase' = "horizontal"
          /\ sweep' = 0 - (props.gridDepth \div 2)
          /\ grid' = grid
  /\ UNCHANGED props

\* 2) Create horizontal lines: one iteration of the for loop, or its exit.
SweepHorizontal ==
  /\ phase = "horizontal"
  /\ IF sweep <= props.gridDepth \div 2
     THEN /\ Len(grid) < MaxGridLines
          /\ grid' = Append(grid, NewLine(FALSE, sweep, props.gridWidth))
          /\ sweep' = NumberAdd(sweep, props.spacing)
          /\ phase' = phase
     ELSE /\ phase' = "intersections"
          /\ sweep' = sweep
          /\ grid' = grid
  /\ UNCHANGED props

\* Faulty variant of Crosses: the span tests are strict.
CrossesStrict(a, b) ==
  /\ a.isVertical # b.isVertical
  /\ \/ /\ a.isVertical
        /\ a.coordinate > b.start /\ a.coordinate < b.end
        /\ b.coordinate > a.start /\ b.coordinate < a.end
     \/ /\ b.isVertical
        /\ b.coordinate > a.start /\ b.coordinate < a.end
        /\ a.coordinate > b.start /\ a.coordinate < b.end

\* The condition under which the pair (a, b) is recorded.
Crosses(a, b) ==
  /\ a.isVertical # b.isVertical
  /\ \/ /\ a.isVertical
        /\ a.coordinate >= b.start /\ a.coordinate <= b.end
        /\ b.coordinate >= a.start /\ b.coordinate <= a.end
     \/ /\ b.isVertical
        /\ b.coordinate >= a.start /\ b.coordinate <= a.end
        /\ a.coordinate >= b.start /\ a.coordinate <= b.end

\* Faulty variant of RecordPair: only a.intersections.push(j).
RecordPairOneSided(ls, i, j) ==
  [ls EXCEPT ![i].intersections = Append(@, j)]

\* a.intersections.push(j); b.intersections.push(i)
RecordPair(ls, i, j) ==
  [ls EXCEPT ![i].intersections = Append(@, j),
             ![j].intersections = Append(@, i)]

\* for (let j = i + 1; j < lines.length; j++)
RECURSIVE InnerLoop(_, _, _)
InnerLoop(ls, i, j) ==
  IF j > Len(ls) THEN ls
  ELSE InnerLoop(IF Crosses(ls[i], ls[j]) THEN RecordPair(ls, i, j) ELSE ls, i, j + 1)

\* Faulty variant of OuterLoop: the inner loop starts at the first line
\* instead of i + 1.
RECURSIVE OuterLoopAllPairs(_, _)
OuterLoopAllPairs(ls, i) ==
  IF i > Len(ls) THEN ls
  ELSE OuterLoopAllPairs(InnerLoop(ls, i, 1), i + 1)

\* for (let i = 0; i < lines.length; i++)
RECURSIVE OuterLoop(_, _)
OuterLoop(ls, i) ==
  IF i > Len(ls) THEN ls
  ELSE OuterLoop(InnerLoop(ls, i, i + 1), i + 1)

\* 3) Calculate intersections, and the useMemo returns.
CalculateIntersections ==
  /\ phase = "intersections"
  /\ grid' = OuterLoop(grid, 1)
  /\ phase' = "done"
  /\ UNCHANGED << props, sweep >>

\* ------------------------------------------------- envelope evaluation
\* useGridEffectsManager: effectConfigs
effectConfigs ==
  [ lineWave     |-> [duration |-> 4000, fadeInDuration |-> 500, fadeOutDuration |-> 500],
    energyPulse  |-> [duration |-> 3000, fadeInDuration |-> 300, fadeOutDuration |-> 300],
    energyPulseV |-> [duration |-> 3500, fadeInDuration |-> 400, fadeOutDuration |-> 400],
    ripple       |-> [duration |-> 2000, fadeInDuration |-> 200, fadeOutDuration |-> 800] ]

\* Faulty variant of ManagerRawIntensity: the fade-in ramp falls from 1 to 0.
ManagerRawIntensityFallingFadeIn(type, elapsed) ==
  LET config == effectConfigs[type]
  IN  IF elapsed < config.fadeInDuration
      THEN << config.fadeInDuration - elapsed, config.fadeInDuration >>
      ELSE IF elapsed > config.duration - config.fadeOutDuration
           THEN << config.duration - elapsed, config.fadeOutDuration >>
           ELSE One

\* useGridEffectsManager useFrame: the intensity before clamping
ManagerRawIntensity(type, elapsed) ==
  LET config == effectConfigs[type]
  IN  IF elapsed < config.fadeInDuration THEN << elapsed, config.fadeInDuration >>
      ELSE IF elapsed > config.duration - config.fadeOutDuration
           THEN << config.duration - elapsed, config.fadeOutDuration >>
           ELSE One

ManagerEnvelope(type, elapsed) == Clamp01(ManagerRawIntensity(type, elapsed))

EnvVariants == {"GridEffects", "useGridEffectsManager"}

EnvKinds(variant) ==
  IF variant = "GridEffects" THEN DOMAIN EFFECTS_CONFIG ELSE DOMAIN effectConfigs

EnvDuration(variant, type) ==
  IF variant = "GridEffects" THEN EFFECTS_CONFIG[type].duration
  ELSE effectConfigs[type].duration

EnvFadeIn(variant, type) ==
  IF variant = "GridEffects" THEN FadeTime(type) ELSE effectConfigs[type].fadeInDuration

EnvFadeOut(variant, type) ==
  IF variant = "GridEffects" THEN FadeTime(type) ELSE effectConfigs[type].fadeOutDuration

ElapsedValues == { 50 * k : k \in (0 - EnvBelow)..EnvAbove }

EnvIdle ==
  /\ envVariant = "none"
  /\ envKind = "none"
  /\ envElapsed = 0
  /\ envOut = << >>

EnvInit ==
  /\ envVariant \in EnvVariants
  /\ envKind \in EnvKinds(envVariant)
  /\ envElapsed \in ElapsedValues
  /\ envOut = << >>

\* One evaluation of the .map step's envelope.
Evaluate ==
  /\ envOut = << >>
  /\ envVariant \in EnvVariants
  /\ envOut' = << IF envVariant = "GridEffects"
                  THEN Envelope(envKind, envElapsed)
                  ELSE ManagerEnvelope(envKind, envElapsed) >>
  /\ UNCHANGED << envVariant, envKind, envElapsed >>

\* ------------------------------------------------------------ energy pulses
\* EnergyPulsesV (src/unnamed/part_009).  Lengths are in fiftieths of a
\* world unit, so that the steps of a child, 1.2 times those of its parent,
\* are whole numbers.  A pulse's lineFraction is kept multiplied by (line.end -
\* line.start), so that its position along its line is line.start +
\* lineFraction; the other two coordinates of a position never change.

BOUNDARY_TOLERANCE == 5
INTERSECTION_TOLERANCE == 50
verticalPulses == 1

GridLine(isVertical, coordinate, start, end) ==
  [isVertical |-> isVertical, coordinate |-> coordinate, start |-> start, end |-> end]

\* The gridLines props tried: a grid whose horizontal lines are closer than
\* twice the intersection tolerance, and one with a horizontal line
\* that spans only one of the two vertical lines and a vertical line that
\* ends before the others.
PulseGrids ==
  { << GridLine(TRUE, -25, -50, 50),
       GridLine(FALSE, -25, -50, 50), GridLine(FALSE, 25, -50, 50) >>,
    << GridLine(TRUE, -25, -50, 50), GridLine(FALSE, 0, 0, 50),
       GridLine(TRUE, 25, -50, 45), GridLine(FALSE, 30, -50, 50) >> }

Abs(x) == IF x < 0 THEN 0 - x ELSE x

Sign(x) == IF x < 0 THEN -1 ELSE IF x > 0 THEN 1 ELSE 0

MinOf(a, b) == IF a <= b THEN a ELSE b

MaxOf(a, b) == IF a >= b THEN a ELSE b

\* isWithinBounds without BOUNDARY_TOLERANCE
isWithinBoundsExact(position, line) ==
  /\ position >= MinOf(line.start, line.end)
  /\ position <= MaxOf(line.start, line.end)

\* isWithinBounds with a tolerance of 1 in place of 0.1
isWithinBoundsWide(position, line) ==
  /\ position >= MinOf(line.start, line.end) - 10 * BOUNDARY_TOLERANCE
  /\ position <= MaxOf(line.start, line.end) + 10 * BOUNDARY_TOLERANCE

isWithinBounds(position, line) ==
  /\ position >= MinOf(line.start, line.end) - BOUNDARY_TOLERANCE
  /\ position <= MaxOf(line.start, line.end) + BOUNDARY_TOLERANCE

\* pulse.position.z of a vertical pulse, pulse.position.x of a horizontal one
Position(pulse, gridLines) == gridLines[pulse.line].start + pulse.lineFraction

\* The index of the line gridLines.find returns, Len(gridLines) + 1 for null.
findIntersection(pulse, gridLines) ==
  IF ~pulse.isVertical THEN Len(gridLines) + 1
  ELSE LET currentZ == Position(pulse, gridLines)
           own == gridLines[pulse.line]
       IN  FirstIndex(Len(gridLines), LAMBDA i :
             LET line == gridLines[i]
             IN  /\ ~(line.isVertical \/ line.coordinate \in pulse.processedZ)
                 /\ Abs(currentZ - line.coordinate) < INTERSECTION_TOLERANCE
                 /\ own.coordinate >= MinOf(line.start, line.end)
                 /\ own.coordinate <= MaxOf(line.start, line.end))

\* createPulse: << >> when it returns undefined, << pulse >> otherwise.
\* `shown` is pulses.length of the render the closure belongs to, `counter`
\* is pulseIdCounter.current.  speed is in tenths of pulseSpeed.  Two fields
\* are history: currentZ is the position findIntersection read in the last
\* frame, travelled the sum of pulseSpeed * delta over the pulse's frames.
createPulse(startLine, startFraction, direction, parentId, isChild, shown, counter) ==
  LET line == pulseProps.gridLines[startLine]
  IN  IF isChild /\ 2 * shown >= 3 * pulseProps.maxPulses THEN << >>
      ELSE IF ~isWithinBounds(line.start + startFraction, line) THEN << >>
      ELSE << [id |-> counter,
               parentId |-> parentId,
               lineFraction |-> startFraction,
               direction |-> direction,
               speed |-> IF isChild THEN 12 ELSE 10,
               line |-> startLine,
               isVertical |-> line.isVertical,
               processedZ |-> {},
               isChild |-> isChild,
               currentZ |-> Undefined,
               travelled |-> 0] >>

\* spawnChildPulses without its first statement
ForgetProcessed(parentPulse, intersectingLine) == parentPulse

\* parentPulse.processedZ.add(intersectingLine.coordinate)
MarkProcessed(parentPulse, intersectingLine) ==
  [parentPulse EXCEPT !.processedZ =
     @ \cup {pulseProps.gridLines[intersectingLine].coordinate}]

\* spawnChildPulses with [1].forEach in place of [-1, 1].forEach
spawnChildPulsesOneWay(parentPulse, intersectingLine, shown, counter) ==
  LET line == pulseProps.gridLines[intersectingLine]
      spawnFraction == pulseProps.gridLines[parentPulse.line].coordinate - line.start
  IN  [parent |-> [parentPulse EXCEPT !.processedZ = @ \cup {line.coordinate}],
       spawned |-> createPulse(intersectingLine, spawnFraction, 1, parentPulse.id,
                               TRUE, shown, counter)]

\* spawnChildPulses: the parent after the call and the pulses its two
\* setPulses calls append.
spawnChildPulses(parentPulse, intersectingLine, shown, counter) ==
  LET line == pulseProps.gridLines[intersectingLine]
      spawnFraction == pulseProps.gridLines[parentPulse.line].coordinate - line.start
      left == createPulse(intersectingLine, spawnFraction, -1, parentPulse.id,
                          TRUE, shown, counter)
      right == createPulse(intersectingLine, spawnFraction, 1, parentPulse.id,
                           TRUE, shown, counter + Len(left))
  IN  [parent |-> MarkProcessed(parentPulse, intersectingLine),
       spawned |-> left \o right]

\* current.filter(...) of the useFrame callback over the pulses `rest`.
\* acc.kept are the pulses the filter keeps, acc.spawned the pulses appended
\* by the setPulses calls made meanwhile, acc.counter is
\* pulseIdCounter.current and acc.calls the spawnChildPulses calls made.
\* `step` is pulseSpeed * delta.
RECURSIVE FilterPulses(_, _, _, _)
FilterPulses(rest, step, shown, acc) ==
  IF rest = << >> THEN acc
  ELSE
    LET pulse == Head(rest)
        gridLines == pulseProps.gridLines
        line == gridLines[pulse.line]
        newFraction == pulse.lineFraction
                         + ((step * pulse.speed) \div 10) * pulse.direction
                           * Sign(line.end - line.start)
        newPosition == line.start + newFraction
        intersectingLine == findIntersection(pulse, gridLines)
        found == pulse.isVertical /\ intersectingLine <= Len(gridLines)
        branch == spawnChildPulses(pulse, intersectingLine, shown, acc.counter)
        after == IF found THEN branch.parent ELSE pulse
        moved == [after EXCEPT !.lineFraction = newFraction,
                               !.currentZ = Position(pulse, gridLines),
                               !.travelled = @ + step]
    IN  IF ~isWithinBounds(newPosition, line)
        THEN FilterPulses(Tail(rest), step, shown, acc)
        ELSE FilterPulses(Tail(rest), step, shown,
               [kept |-> Append(acc.kept, moved),
                spawned |-> IF found THEN acc.spawned \o branch.spawned ELSE acc.spawned,
                counter |-> IF found THEN acc.counter + Len(branch.spawned) ELSE acc.counter,
                calls |-> IF found
                          THEN Append(acc.calls,
                                 [parent |-> pulse.id, line |-> intersectingLine,
                                  at |-> Position(pulse, gridLines),
                                  children |-> Len(branch.spawned)])
                          ELSE acc.calls])

\* spawnInitialPulses: choice[i] is the vertical line Math.random() picks in
\* iteration i.
RECURSIVE spawnInitialPulses(_, _, _)
spawnInitialPulses(choice, i, counter) ==
  IF i > verticalPulses THEN << >>
  ELSE LET newPulse == createPulse(choice[i], 0, 1, Undefined, FALSE, 0, counter)
       IN  newPulse \o spawnInitialPulses(choice, i + 1, counter + Len(newPulse))

\* The calls whose parent pulse is in `pool`.  A pulse that left the pool
\* never returns to it (ids are not reused), so no later call names it.
CallsOf(made, pool) ==
  SelectSeq(made, LAMBDA call : \E k \in DOMAIN pool : pool[k].id = call.parent)

PulseVerticals(gridLines) == { i \in DOMAIN gridLines : gridLines[i].isVertical }

PulseIdle ==
  /\ pulseProps = [gridLines |-> << >>, maxPulses |-> 0]
  /\ pulses = << >>
  /\ pulseIdCounter = 0
  /\ lastTriggerRef = 0
  /\ branchings = << >>
  /\ lastStep = 0
  /\ pulseMounted = FALSE
  /\ groupMeshes = {}
  /\ disposed = {}

PulseInit ==
  /\ pulseProps \in [gridLines : PulseGrids, maxPulses : MaxPulsesTried]
  /\ pulses = << >>
  /\ pulseIdCounter = 0
  /\ lastTriggerRef = 0
  /\ branchings = << >>
  /\ lastStep = 0
  /\ pulseMounted = TRUE
  /\ groupMeshes = {}
  /\ disposed = {}

\* The ids of the pulses of `pool`
Ids(pool) == { pool[k].id : k \in DOMAIN pool }

\* The effect without its comparison of trigger with lastTriggerRef.current.
TriggerChangedAlways(trigger) == TRUE

\* `trigger !== lastTriggerRef.current`
TriggerChanged(trigger) == trigger # lastTriggerRef

\* The body of the effect "Handle trigger changes", run with the trigger
\* prop `trigger`: choice[i] is the vertical line Math.random() picks in
\* iteration i of spawnInitialPulses.
TriggerEffectBody(trigger, choice) ==
  IF TriggerChanged(trigger)
    THEN /\ lastTriggerRef' = trigger
         /\ LET spawned == IF PulseVerticals(pulseProps.gridLines) = {} THEN << >>
                           ELSE spawnInitialPulses(choice, 1, pulseIdCounter)
            IN  /\ pulses' = spawned
                /\ pulseIdCounter' = pulseIdCounter + Len(spawned)
                /\ branchings' = CallsOf(branchings, spawned)
                /\ groupMeshes' = groupMeshes \cup Ids(spawned)
         /\ lastStep' = 0
         /\ UNCHANGED << pulseProps, pulseMounted, disposed >>
    ELSE UNCHANGED pvars

\* The trigger prop changes and the trigger effect runs: setPulses([]) and
\* spawnInitialPulses().  createPulse adds the mesh of each new pulse to the
\* group; nothing is removed from the group and nothing is disposed.
TriggerPulses(choice) ==
  /\ pulseMounted
  /\ lastTriggerRef < MaxTriggers
  /\ TriggerEffectBody(lastTriggerRef + 1, choice)

\* A render with the trigger prop of the render before it, after which the
\* effect runs again (its dependency verticalPulses is a new value).
PulseRerender(choice) ==
  /\ pulseMounted
  /\ TriggerEffectBody(lastTriggerRef, choice)

\* One useFrame callback: the filter, then the appends queued during it.
\* The filter removes the mesh of a pulse it drops from the group and
\* disposes its geometry and material; createPulse adds the mesh of each
\* child to the group.
PulseFrame(step) ==
  /\ pulseMounted
  /\ pulses # << >>
  /\ LET out == FilterPulses(pulses, step, Len(pulses),
                  [kept |-> << >>, spawned |-> << >>,
                   counter |-> pulseIdCounter, calls |-> << >>])
     IN  /\ pulses' = out.kept \o out.spawned
         /\ pulseIdCounter' = out.counter
         /\ branchings' = CallsOf(branchings \o out.calls, out.kept \o out.spawned)
         /\ groupMeshes' = (groupMeshes \ (Ids(pulses) \ Ids(out.kept))) \cup Ids(out.spawned)
         /\ disposed' = disposed \cup (Ids(pulses) \ Ids(out.kept))
  /\ lastStep' = step
  /\ UNCHANGED << pulseProps, lastTriggerRef, pulseMounted >>

\* The `pulses` the cleanup effect closes over: its dependency list is [],
\* so it is the effect of the first render, whose pulses is useState's
\* initial value.
CleanupPulses == << >>

\* The component unmounts: the cleanup effect disposes the geometry and the
\* material of every pulse of the `pulses` it closes over.
PulseUnmount ==
  /\ pulseMounted
  /\ pulseMounted' = FALSE
  /\ disposed' = disposed \cup Ids(CleanupPulses)
  /\ UNCHANGED << pulseProps, pulses, pulseIdCounter, lastTriggerRef, branchings,
                  lastStep, groupMeshes >>

\* -------------------------------------------------- turning energy pulses
\* EnergyPulses, in its timer variant (effects/components/energyPulses.tsx)
\* and its trigger variant (effects/components/lineWaves.tsx).  Lengths are
\* in fiftieths of a world unit, a value of Math.random() is in hundredths.
\* A pulse is an object that the filter of useFrame mutates in place; `ref`
\* stands for the object's identity, and `turns` counts the times the
\* filter has assigned pulse.line.

turnChance == 7

\* The values of Math.random() tried.
Rolls == {0, 60}

\* The values of pulseSpeed * delta tried; a delta is measured by the
\* distance a pulse covers in it.
TurnSteps == {25, 50}

\* The props tried: the timer variant with one and with two pulses at most,
\* the trigger variant with its default maxPulses.
TurnPropsTried ==
  { [gridLines |-> gridLines, maxPulses |-> maxPulses, variant |-> "timer"] :
      gridLines \in PulseGrids, maxPulses \in {1, 2} }
  \cup { [gridLines |-> gridLines, maxPulses |-> 1, variant |-> "trigger"] :
           gridLines \in PulseGrids }

\* baseTime is 1 / spawnRate on the scale of the grids tried, spawnJitter is
\* in hundredths, and 1 stands for the minimum of 16 ms.
calculateNextSpawnTime(roll) ==
  LET baseTime == 40
      spawnJitter == 50
      jitterRange == (baseTime * spawnJitter) \div 100
      jitterAmount == ((2 * roll - 100) * jitterRange) \div 100
  IN MaxOf(1, baseTime + jitterAmount)

\* gridLines.filter(...) of findIntersectingLines, as the indices of the
\* lines it keeps, in the order of gridLines.
findIntersectingLines(position, currentLine, gridLines) ==
  LET crosses(i) ==
        LET line == gridLines[i] IN
          /\ i # currentLine
          /\ IF gridLines[currentLine].isVertical
               THEN /\ ~line.isVertical
                    /\ Abs(line.coordinate - position.z) < 5
                    /\ position.x >= MinOf(line.start, line.end)
                    /\ position.x <= MaxOf(line.start, line.end)
               ELSE /\ line.isVertical
                    /\ Abs(line.coordinate - position.x) < 5
                    /\ position.z >= MinOf(line.start, line.end)
                    /\ position.z <= MaxOf(line.start, line.end)
  IN SelectSeq([i \in 1..Len(gridLines) |-> i], crosses)

\* The smallest object identity no pulse of the pool has.
FreshRef(pool) ==
  CHOOSE r \in 0..Len(pool) :
    /\ \A k \in 1..Len(pool) : pool[k].ref # r
    /\ \A q \in 0..(r - 1) : \E k \in 1..Len(pool) : pool[k].ref = q

\* createPulse(): << >> for undefined.  `shown` is the pulses of the render
\* whose createPulse is called; the trigger variant does not look at it.
createTurningPulse(lineRoll, startRoll, shown, pool, turningProps) ==
  IF Len(turningProps.gridLines) = 0 THEN << >>
  ELSE IF turningProps.variant = "timer" /\ Len(shown) >= turningProps.maxPulses
    THEN << >>
  ELSE
    LET index == ((lineRoll * Len(turningProps.gridLines)) \div 100) + 1
        startLine == turningProps.gridLines[index]
        startAtBeginning == startRoll > 50
        startCoord == IF startAtBeginning THEN startLine.start ELSE startLine.end
        along == IF startAtBeginning THEN 1 ELSE -1
    IN << [ref |-> FreshRef(pool),
           position |-> [x |-> IF startLine.isVertical THEN startLine.coordinate
                                                       ELSE startCoord,
                         z |-> IF startLine.isVertical THEN startCoord
                                                       ELSE startLine.coordinate],
           direction |-> [x |-> IF startLine.isVertical THEN 0 ELSE along,
                          z |-> IF startLine.isVertical THEN along ELSE 0],
           line |-> index,
           hasTurned |-> FALSE,
           isVertical |-> startLine.isVertical,
           turns |-> 0] >>

\* The turn of the filter without its test of pulse.hasTurned.
TurnAtIntersectionAgain(pulse, roll, gridLines) ==
  LET intersectingLines == findIntersectingLines(pulse.position, pulse.line, gridLines)
      newLine == intersectingLines[((roll.pick * Len(intersectingLines)) \div 100) + 1]
      side == IF roll.side > 50 THEN 1 ELSE -1
  IN IF Len(intersectingLines) > 0 /\ roll.turn < turnChance
       THEN [pulse EXCEPT
               !.line = newLine,
               !.direction = [x |-> IF gridLines[newLine].isVertical THEN 0 ELSE side,
                              z |-> IF gridLines[newLine].isVertical THEN side ELSE 0],
               !.hasTurned = TRUE,
               !.isVertical = gridLines[newLine].isVertical,
               !.turns = @ + 1]
       ELSE pulse

\* "Check for possible turns at intersections": the pulse after the first
\* block of the filter callback.  roll.turn, roll.pick and roll.side are what
\* its three calls of Math.random() return.
TurnAtIntersection(pulse, roll, gridLines) ==
  IF ~pulse.hasTurned
    THEN LET intersectingLines ==
               findIntersectingLines(pulse.position, pulse.line, gridLines)
             newLine ==
               intersectingLines[((roll.pick * Len(intersectingLines)) \div 100) + 1]
             side == IF roll.side > 50 THEN 1 ELSE -1
         IN IF Len(intersectingLines) > 0 /\ roll.turn < turnChance
              THEN [pulse EXCEPT
                      !.line = newLine,
                      !.direction =
                        [x |-> IF gridLines[newLine].isVertical THEN 0 ELSE side,
                         z |-> IF gridLines[newLine].isVertical THEN side ELSE 0],
                      !.hasTurned = TRUE,
                      !.isVertical = gridLines[newLine].isVertical,
                      !.turns = @ + 1]
              ELSE pulse
    ELSE pulse

\* The pulses for which the filter calls Math.random(): those a draw below
\* turnChance turns.
DrawsARoll(pool, gridLines) ==
  { k \in 1..Len(pool) :
      TurnAtIntersection(pool[k], [turn |-> 0, pick |-> 0, side |-> 0], gridLines)
        # pool[k] }

\* current.filter(...) of useFrame over the pulses from index k on; rolls[k]
\* is what Math.random() returns for pulse k, if the callback calls it.
RECURSIVE FilterTurning(_, _, _, _, _)
FilterTurning(pool, k, step, rolls, gridLines) ==
  IF k > Len(pool) THEN << >>
  ELSE
    LET roll == IF k \in DOMAIN rolls THEN rolls[k]
                ELSE [turn |-> 99, pick |-> 0, side |-> 0]
        pulse == TurnAtIntersection(pool[k], roll, gridLines)
        newPosition == [x |-> pulse.position.x + pulse.direction.x * step,
                        z |-> pulse.position.z + pulse.direction.z * step]
        line == gridLines[pulse.line]
        isAtEnd ==
          IF pulse.isVertical
            THEN \/ newPosition.z < MinOf(line.start, line.end)
                 \/ newPosition.z > MaxOf(line.start, line.end)
            ELSE \/ newPosition.x < MinOf(line.start, line.end)
                 \/ newPosition.x > MaxOf(line.start, line.end)
        rest == FilterTurning(pool, k + 1, step, rolls, gridLines)
    IN IF isAtEnd
         THEN rest
         ELSE << [pulse EXCEPT !.position = newPosition] >> \o rest

TurnIdle ==
  /\ turnProps = [gridLines |-> << >>, maxPulses |-> 0, variant |-> "none"]
  /\ turnPulses = << >>
  /\ turnShown = << >>
  /\ unrendered = 0
  /\ nextSpawnRef = 0
  /\ turnTriggerRef = 0

TurnInit ==
  /\ turnProps \in TurnPropsTried
  /\ turnPulses = << >>
  /\ turnShown = << >>
  /\ unrendered = 0
  /\ nextSpawnRef = 0
  /\ turnTriggerRef = 0

\* The trigger prop of the trigger variant changes: the effect queues
\* maxPulses updaters, each appending what createPulse returns.
RECURSIVE AppendCreated(_, _, _)
AppendCreated(pool, n, draws) ==
  IF n > turnProps.maxPulses THEN pool
  ELSE AppendCreated(
         pool \o createTurningPulse(draws[n].line, draws[n].start, turnShown,
                                    pool, turnProps),
         n + 1, draws)

TurnTrigger(draws) ==
  /\ turnProps.variant = "trigger"
  /\ turnTriggerRef < MaxTriggers
  /\ turnTriggerRef' = turnTriggerRef + 1
  /\ turnPulses' = AppendCreated(turnPulses, 1, draws)
  /\ UNCHANGED << turnProps, nextSpawnRef >>

\* Whether this frame queues the updater that spawns: the test that follows
\* `nextSpawnRef.current -= delta`.
SpawnsNow(step) ==
  /\ turnProps.variant = "timer"
  /\ nextSpawnRef - step <= 0
  /\ Len(turnShown) < turnProps.maxPulses

\* The pool after the spawning updater, if it is queued.
AfterSpawn(step, draw) ==
  IF SpawnsNow(step)
    THEN turnPulses \o createTurningPulse(draw.line, draw.start, turnShown,
                                          turnPulses, turnProps)
    ELSE turnPulses

\* useFrame: the spawn timer, then the filter.  Only the test against 0
\* reads the timer before it is set anew, so its values below 0 are kept as 0.
TurnFrame(step, draw, rolls) ==
  /\ turnProps.variant \in {"timer", "trigger"}
  /\ turnPulses' = FilterTurning(AfterSpawn(step, draw), 1, step, rolls,
                                 turnProps.gridLines)
  /\ nextSpawnRef' = IF SpawnsNow(step) THEN calculateNextSpawnTime(draw.next)
                     ELSE IF turnProps.variant = "timer"
                       THEN MaxOf(0, nextSpawnRef - step)
                     ELSE nextSpawnRef
  /\ UNCHANGED << turnProps, turnTriggerRef >>

\* A render: the callbacks close over the current pulses from now on.
TurnRender ==
  /\ unrendered > 0
  /\ turnShown' = turnPulses
  /\ unrendered' = 0
  /\ UNCHANGED << turnProps, turnPulses, nextSpawnRef, turnTriggerRef >>

\* ------------------------------------------- fraction-based energy pulses
\* EnergyPulses of effects/energyPulses.tsx (lines 1-216; effects/
\* energyPulsesV.tsx has the same frame loop).  A pulse's position is a
\* fraction of its line, kept in hundredths; time is in units of 100 ms, in
\* which PULSE_SPEED moves a pulse by one hundredth.  `age` is
\* performance.now() - pulse.startTime.

\* The gridLines prop tried: a vertical line crossed by two horizontal ones.
FractionGrid ==
  << [isVertical |-> TRUE, coordinate |-> 0, start |-> -50, end |-> 50,
      length |-> 100, intersections |-> << 2, 3 >>],
     [isVertical |-> FALSE, coordinate |-> -20, start |-> -50, end |-> 50,
      length |-> 100, intersections |-> << 1 >>],
     [isVertical |-> FALSE, coordinate |-> 20, start |-> -50, end |-> 50,
      length |-> 100, intersections |-> << 1 >>] >>

\* The times between two frames tried.
FractionSteps == {10, 20}

\* createPulse(): lineRoll and startRoll are what Math.random() returns.
createFractionPulse(lineRoll, startRoll, gridLines) ==
  LET edgeLines == SelectSeq([i \in 1..Len(gridLines) |-> i],
                             LAMBDA i : Abs(gridLines[i].end - gridLines[i].start) * 10
                                          > gridLines[i].length * 8)
      startPos == IF startRoll < 50 THEN 0 ELSE 100
  IN [lineIndex |-> edgeLines[((lineRoll * Len(edgeLines)) \div 100) + 1],
      position |-> startPos,
      direction |-> IF startPos = 0 THEN 1 ELSE -1,
      turned |-> FALSE,
      age |-> 0]

\* newPosition of the frame loop for a pulse whose age is already that of
\* the frame.
FractionNewPosition(pulse) ==
  IF pulse.direction > 0 THEN pulse.position + pulse.age
                         ELSE pulse.position - pulse.age

\* Whether the pulse is within 0.02 of the j-th intersection of its line.
NearIntersection(pulse, j, gridLines) ==
  LET line == gridLines[pulse.lineIndex]
      otherLine == gridLines[line.intersections[j]]
      intersectionFrac == ((otherLine.coordinate - line.start) * 100) \div line.length
  IN Abs(intersectionFrac - FractionNewPosition(pulse)) < 2

\* The inner loop `for (const otherIndex of line.intersections)` from the
\* j-th intersection on: the pulses it pushes.  Its `continue` goes on with
\* the next intersection.
RECURSIVE FractionTurns(_, _, _, _, _)
FractionTurns(pulse, k, j, rolls, gridLines) ==
  LET line == gridLines[pulse.lineIndex] IN
  IF j > Len(line.intersections) THEN << >>
  ELSE
    LET otherIndex == line.intersections[j]
        otherLine == gridLines[otherIndex]
        rest == FractionTurns(pulse, k, j + 1, rolls, gridLines)
    IN IF NearIntersection(pulse, j, gridLines) /\ rolls[<< k, j >>].turn < 30
         THEN << [pulse EXCEPT
                    !.lineIndex = otherIndex,
                    !.position = ((line.coordinate - otherLine.start) * 100)
                                   \div otherLine.length,
                    !.direction = IF rolls[<< k, j >>].side < 50 THEN 1 ELSE -1,
                    !.turned = TRUE,
                    !.age = 0] >> \o rest
         ELSE rest

\* The loop `for (const pulse of pulsesRef.current)` from the k-th pulse on:
\* nextPulses.  The pulses have the age of the frame.
RECURSIVE FractionLoop(_, _, _, _)
FractionLoop(pool, k, rolls, gridLines) ==
  IF k > Len(pool) THEN << >>
  ELSE
    LET pulse == pool[k]
        newPosition == FractionNewPosition(pulse)
        turned == IF ~pulse.turned THEN FractionTurns(pulse, k, 1, rolls, gridLines)
                  ELSE << >>
        kept == IF newPosition >= -5 /\ newPosition <= 105
                  THEN << [pulse EXCEPT !.position = newPosition] >>
                  ELSE << >>
    IN turned \o kept \o FractionLoop(pool, k + 1, rolls, gridLines)

\* The pulses of the pool after `elapsed` more time.
Aged(pool, elapsed) ==
  [k \in 1..Len(pool) |-> [pool[k] EXCEPT !.age = @ + elapsed]]

\* The (pulse, intersection) pairs for which the frame calls Math.random().
FractionDraws(pool, gridLines) ==
  { pair \in (1..Len(pool)) \X (1..Len(gridLines)) :
      /\ ~pool[pair[1]].turned
      /\ pair[2] <= Len(gridLines[pool[pair[1]].lineIndex].intersections)
      /\ NearIntersection(pool[pair[1]], pair[2], gridLines) }

FractionIdle ==
  /\ pulsesRef = << >>
  /\ pulseCount = 0
  /\ spawns = 0

\* After the first run of the effect, which calls handleSpawn().
FractionInit ==
  /\ \E lineRoll \in Rolls : \E startRoll \in Rolls :
       pulsesRef = << createFractionPulse(lineRoll, startRoll, FractionGrid) >>
  /\ pulseCount = 1
  /\ spawns = 1

\* handleSpawn, called by the interval.
handleSpawn(lineRoll, startRoll) ==
  /\ spawns < MaxSpawns
  /\ spawns' = spawns + 1
  /\ pulsesRef' = pulsesRef
                    \o << createFractionPulse(lineRoll, startRoll, FractionGrid) >>
  /\ pulseCount' = pulseCount + 1

\* useFrame, `elapsed` after the callback before it.
FractionFrame(elapsed, rolls) ==
  /\ Len(pulsesRef) # 0
  /\ pulsesRef' = FractionLoop(Aged(pulsesRef, elapsed), 1, rolls, FractionGrid)
  /\ pulseCount' = Len(pulsesRef')
  /\ UNCHANGED spawns

\* -------------------------------------------- constant-count energy pulses
\* EnergyPulsesV of effects/components/energyPulsesV.tsx, which keeps
\* TARGET_VERTICAL_PULSES vertical pulses running.  Lengths are in fiftieths
\* of a world unit and a pulse's lineFraction is kept multiplied by
\* (line.end - line.start), as for the triggered EnergyPulsesV.

TARGET_VERTICAL_PULSES == 3

\* The maxPulses props tried.
ConstantMaxPulsesTried == {2, 4}

\* The removal of a pulse that counts for activeVerticalPulses, without the
\* test of pulse.isChild.
CountsAsVerticalWithChildren(pulse) == TRUE

\* `pulse.isVertical && !pulse.isChild` of the removal.
CountsAsVertical(pulse) == pulse.isVertical /\ ~pulse.isChild

\* createInitialPulse() and the createPulse it calls: the pulse, if any, and
\* the counter after the call.  roll is what Math.random() returns.
createInitialPulse(roll, active, gridLines) ==
  LET verticalLines == SelectSeq([i \in 1..Len(gridLines) |-> i],
                                 LAMBDA i : gridLines[i].isVertical)
      startLine == verticalLines[((roll * Len(verticalLines)) \div 100) + 1]
  IN IF Len(gridLines) = 0 \/ Len(verticalLines) = 0
          \/ active >= TARGET_VERTICAL_PULSES
       THEN [created |-> << >>, active |-> active]
       ELSE [created |-> << [line |-> startLine, lineFraction |-> 0, direction |-> 1,
                             isVertical |-> TRUE, isChild |-> FALSE,
                             processedZ |-> {}] >>,
             active |-> active + 1]

\* current.filter(...) of useFrame from the k-th pulse on.  acc.kept are the
\* pulses kept so far, acc.spawned the children whose updaters
\* spawnChildPulses has queued, acc.active is activeVerticalPulses.current;
\* shown is pulses.length of the render.
RECURSIVE ConstantFilter(_, _, _, _, _, _)
ConstantFilter(pool, k, step, shown, given, acc) ==
  IF k > Len(pool) THEN acc
  ELSE
    LET pulse == pool[k]
        gridLines == given.gridLines
        line == gridLines[pulse.line]
        lineLength == Abs(line.end - line.start)
        newFraction == pulse.lineFraction + step * pulse.direction
        currentZ == line.start + pulse.lineFraction
        crossed(i) ==
          /\ ~gridLines[i].isVertical
          /\ gridLines[i].coordinate \notin pulse.processedZ
          /\ Abs(currentZ - gridLines[i].coordinate) < 50
          /\ line.coordinate >= MinOf(gridLines[i].start, gridLines[i].end)
          /\ line.coordinate <= MaxOf(gridLines[i].start, gridLines[i].end)
        found == pulse.isVertical /\ \E i \in 1..Len(gridLines) : crossed(i)
        intersectingLine ==
          CHOOSE i \in 1..Len(gridLines) :
            crossed(i) /\ \A j \in 1..(i - 1) : ~crossed(j)
        childPulses ==
          IF found /\ shown < given.maxPulses
            THEN [dir \in 1..2 |->
                   [line |-> intersectingLine,
                    lineFraction |-> line.coordinate - gridLines[intersectingLine].start,
                    direction |-> IF dir = 1 THEN -1 ELSE 1,
                    isVertical |-> FALSE, isChild |-> TRUE, processedZ |-> {}]]
            ELSE << >>
        after == IF found
                   THEN [pulse EXCEPT
                           !.processedZ = @ \cup {gridLines[intersectingLine].coordinate}]
                   ELSE pulse
        removed == \/ 100 * newFraction < -5 * lineLength
                   \/ 100 * newFraction > 105 * lineLength
    IN ConstantFilter(pool, k + 1, step, shown, given,
         [kept |-> IF removed THEN acc.kept
                   ELSE Append(acc.kept, [after EXCEPT !.lineFraction = newFraction]),
          spawned |-> acc.spawned \o childPulses,
          active |-> IF removed /\ CountsAsVertical(pulse)
                       THEN acc.active - 1 ELSE acc.active])

ConstantIdle ==
  /\ cprops = [gridLines |-> << >>, maxPulses |-> 0]
  /\ cpulses = << >>
  /\ activeVerticalPulses = 0

ConstantInit ==
  /\ cprops \in [gridLines : PulseGrids, maxPulses : ConstantMaxPulsesTried]
  /\ cpulses = << >>
  /\ activeVerticalPulses = 0

\* useFrame: the updater that keeps the number of vertical pulses, then the
\* filter, then the updaters the filter has queued for the children.
ConstantFrame(step, roll) ==
  /\ Len(cprops.gridLines) > 0
  /\ LET first == IF activeVerticalPulses < TARGET_VERTICAL_PULSES
                    THEN createInitialPulse(roll, activeVerticalPulses, cprops.gridLines)
                    ELSE [created |-> << >>, active |-> activeVerticalPulses]
         out == ConstantFilter(cpulses \o first.created, 1, step, Len(cpulses), cprops,
                               [kept |-> << >>, spawned |-> << >>,
                                active |-> first.active])
     IN /\ cpulses' = out.kept \o out.spawned
        /\ activeVerticalPulses' = out.active
  /\ UNCHANGED cprops

\* ----------------------------------------------------------- effect manager
\* EffectManager (Grid/utils/gridEffects.tsx).  Times are in seconds, factors
\* in thousandths.  null is the id "null".
effects ==
  << [id |-> "sinewave", duration |-> 6, cooldown |-> 3],
     [id |-> "ripple", duration |-> 4, cooldown |-> 3],
     [id |-> "pulse", duration |-> 3, cooldown |-> 3] >>

NoEffect == [id |-> "null", duration |-> 0, cooldown |-> 0]

\* Math.random() of pickNewEffect, in hundredths.
ManagerRolls == {0, 50, 99}

\* The wave value of a compute function (a sine or an exponential of the
\* time and the position, between 0 and 1), in thousandths.
Waves == {0, 500, 1000}

\* The brightness and emissive factors outside an active effect.
RestingFactors == [brightnessFactor |-> 200, emissiveFactor |-> 100]

\* effect.compute(params), given the wave value it computes.
compute(effect, wave) ==
  IF effect.id = "sinewave"
    THEN LET intensity == (wave * 8) \div 10
         IN  [brightnessFactor |-> 200 + intensity,
              emissiveFactor |-> 100 + (intensity * 25) \div 10]
  ELSE IF effect.id = "ripple"
    THEN [brightnessFactor |-> 200 + (wave * 12) \div 10,
          emissiveFactor |-> 100 + wave * 3]
    ELSE [brightnessFactor |-> 200 + wave, emissiveFactor |-> 100 + wave * 3]

\* pickNewEffect choosing among all effects, the last one included.
availableEffectsAll(last) == effects

\* effects.filter((effect) => effect.id !== this.lastEffectId)
availableEffects(last) == SelectSeq(effects, LAMBDA effect : effect.id # last)

\* The fields of the manager after pickNewEffect(time), Math.random()
\* returning roll / 100.
pickNewEffect(time, roll, fields) ==
  LET available == availableEffects(fields.lastEffectId)
  IN  IF Len(available) > 0
        THEN LET randomIndex == (roll * Len(available)) \div 100
                 picked == available[randomIndex + 1]
             IN  [currentEffect |-> picked,
                  effectStartTime |-> time,
                  lastEffectId |-> picked.id,
                  nextEffectTime |-> time + picked.duration + picked.cooldown]
        ELSE fields

ManagerFields ==
  [currentEffect |-> currentEffect, effectStartTime |-> effectStartTime,
   lastEffectId |-> lastEffectId, nextEffectTime |-> nextEffectTime]

\* No manager is constructed.
ManagerIdle ==
  /\ currentEffect = NoEffect
  /\ effectStartTime = 0
  /\ lastEffectId = "null"
  /\ nextEffectTime = 0
  /\ managerTime = 0
  /\ managerResult = RestingFactors

\* new EffectManager(): the field initialisers, then pickNewEffect(0).
ManagerInit ==
  /\ \E roll \in ManagerRolls :
       LET fields == pickNewEffect(0, roll,
                       [currentEffect |-> NoEffect, effectStartTime |-> 0,
                        lastEffectId |-> "null", nextEffectTime |-> 0])
       IN  /\ currentEffect = fields.currentEffect
           /\ effectStartTime = fields.effectStartTime
           /\ lastEffectId = fields.lastEffectId
           /\ nextEffectTime = fields.nextEffectTime
  /\ managerTime = 0
  /\ managerResult = RestingFactors

\* computeEffect(params) with params.time = time.
computeEffect(time, roll, wave) ==
  LET fields == IF currentEffect = NoEffect \/ time >= nextEffectTime
                  THEN pickNewEffect(time, roll, ManagerFields)
                  ELSE ManagerFields
  IN  /\ currentEffect' = fields.currentEffect
      /\ effectStartTime' = fields.effectStartTime
      /\ lastEffectId' = fields.lastEffectId
      /\ nextEffectTime' = fields.nextEffectTime
      /\ managerTime' = time
      /\ managerResult' =
           IF /\ fields.currentEffect # NoEffect
              /\ time >= fields.effectStartTime + fields.currentEffect.duration
             THEN RestingFactors
           ELSE IF fields.currentEffect # NoEffect
             THEN compute(fields.currentEffect, wave)
             ELSE RestingFactors

\* ------------------------------------------------------ independent triggers
\* IndependentGridEffects (Grid/effects/independentGridEffects.tsx).  Times
\* are in ms; a timer is [chain, kind, left], left the ms until it is due.
\* Math.random() is a roll in hundredths.
IndepRolls == {0, 50, 99}

\* The clock step.
IndepStep == 1000

\* getRandomDelay without `+ min`.
getRandomDelayNoMin(min, max, roll) ==
  ((roll * (max - min + 1)) \div 100) * 1000

\* Math.floor(Math.random() * (max - min + 1) + min) * 1000
getRandomDelay(min, max, roll) ==
  ((roll * (max - min + 1)) \div 100 + min) * 1000

\* Math.floor(Math.random() * 8) + 1
getRandomVerticalPulses(roll) == (roll * 8) \div 100 + 1

\* scheduleNext that schedules nothing.
scheduleNextDropped(pending, chain, roll) == pending

\* scheduleNext() of the chain: setTimeout(trigger..., getRandomDelay(...)).
scheduleNext(pending, chain, roll) ==
  Append(pending,
         [chain |-> chain, kind |-> "trigger",
          left |-> IF chain = "regular" THEN getRandomDelay(3, 7, roll)
                                        ELSE getRandomDelay(10, 20, roll)])

\* The timers without the one that is running.
Fired(i) == SelectSeq([j \in 1..Len(indepTimers) |-> [t |-> indepTimers[j], at |-> j]],
                      LAMBDA r : r.at # i)

Pending(i) == [j \in 1..Len(Fired(i)) |-> Fired(i)[j].t]

Due(i, chain, kind) ==
  /\ i \in 1..Len(indepTimers)
  /\ indepTimers[i].chain = chain
  /\ indepTimers[i].kind = kind
  /\ indepTimers[i].left = 0

\* The component is not rendered.
IndepIdle ==
  /\ indepMounted = FALSE
  /\ regularPulseTrigger = 0
  /\ verticalPulseTrigger = 0
  /\ verticalPulsesState = 1
  /\ isRegularActiveRef = FALSE
  /\ isVerticalActiveRef = FALSE
  /\ indepTimers = << >>
  /\ sinceRegular = MaxSince
  /\ indepOp = "idle"

\* The component has mounted and both effects have run scheduleNext().
IndepInit ==
  /\ indepMounted = TRUE
  /\ regularPulseTrigger = 0
  /\ verticalPulseTrigger = 0
  /\ verticalPulsesState = 1
  /\ isRegularActiveRef = FALSE
  /\ isVerticalActiveRef = FALSE
  /\ \E r \in IndepRolls : \E v \in IndepRolls :
       indepTimers = scheduleNext(scheduleNext(<< >>, "regular", r), "vertical", v)
  /\ sinceRegular = MaxSince
  /\ indepOp = "mount"

\* The timer callback triggerRegularPulse.  A state update of a component
\* that has unmounted is dropped.
triggerRegularPulse(i) ==
  /\ Due(i, "regular", "trigger")
  /\ IF ~isRegularActiveRef
       THEN /\ isRegularActiveRef' = TRUE
            /\ regularPulseTrigger' =
                 IF indepMounted THEN (regularPulseTrigger + 1) % TriggerWrap
                                 ELSE regularPulseTrigger
            /\ indepTimers' =
                 Append(Pending(i), [chain |-> "regular", kind |-> "release", left |-> 2000])
            /\ sinceRegular' = 0
            /\ indepOp' = "regularTrigger"
       ELSE /\ indepTimers' = Pending(i)
            /\ indepOp' = "regularSkip"
            /\ UNCHANGED << isRegularActiveRef, regularPulseTrigger, sinceRegular >>
  /\ UNCHANGED << indepMounted, verticalPulseTrigger, verticalPulsesState,
                  isVerticalActiveRef >>

\* The timer callback that releases the regular gate and calls scheduleNext().
RegularRelease(i, roll) ==
  /\ Due(i, "regular", "release")
  /\ isRegularActiveRef' = FALSE
  /\ indepTimers' = scheduleNext(Pending(i), "regular", roll)
  /\ indepOp' = "regularRelease"
  /\ UNCHANGED << indepMounted, regularPulseTrigger, verticalPulseTrigger,
                  verticalPulsesState, isVerticalActiveRef, sinceRegular >>

\* The timer callback triggerVerticalPulse.
triggerVerticalPulse(i, roll) ==
  /\ Due(i, "vertical", "trigger")
  /\ IF ~isVerticalActiveRef
       THEN /\ isVerticalActiveRef' = TRUE
            /\ verticalPulsesState' =
                 IF indepMounted THEN getRandomVerticalPulses(roll)
                                 ELSE verticalPulsesState
            /\ verticalPulseTrigger' =
                 IF indepMounted THEN (verticalPulseTrigger + 1) % TriggerWrap
                                 ELSE verticalPulseTrigger
            /\ indepTimers' =
                 Append(Pending(i), [chain |-> "vertical", kind |-> "release", left |-> 3000])
            /\ indepOp' = "verticalTrigger"
       ELSE /\ indepTimers' = Pending(i)
            /\ indepOp' = "verticalSkip"
            /\ UNCHANGED << isVerticalActiveRef, verticalPulsesState, verticalPulseTrigger >>
  /\ UNCHANGED << indepMounted, regularPulseTrigger, isRegularActiveRef, sinceRegular >>

\* The timer callback that releases the vertical gate and calls scheduleNext().
VerticalRelease(i, roll) ==
  /\ Due(i, "vertical", "release")
  /\ isVerticalActiveRef' = FALSE
  /\ indepTimers' = scheduleNext(Pending(i), "vertical", roll)
  /\ indepOp' = "verticalRelease"
  /\ UNCHANGED << indepMounted, regularPulseTrigger, verticalPulseTrigger,
                  verticalPulsesState, isRegularActiveRef, sinceRegular >>

\* Time passes; a timer that is due runs before the clock moves on.
IndepAdvance ==
  /\ indepTimers # << >>
  /\ \A i \in 1..Len(indepTimers) : indepTimers[i].left >= IndepStep
  /\ indepTimers' = [i \in 1..Len(indepTimers) |->
                       [indepTimers[i] EXCEPT !.left = @ - IndepStep]]
  /\ sinceRegular' = IF sinceRegular + IndepStep > MaxSince THEN MaxSince
                                                           ELSE sinceRegular + IndepStep
  /\ indepOp' = "advance"
  /\ UNCHANGED << indepMounted, regularPulseTrigger, verticalPulseTrigger,
                  verticalPulsesState, isRegularActiveRef, isVerticalActiveRef >>

\* The component unmounts: the cleanups of both effects clear the gates.
IndepUnmount ==
  /\ indepMounted
  /\ indepMounted' = FALSE
  /\ isRegularActiveRef' = FALSE
  /\ isVerticalActiveRef' = FALSE
  /\ indepOp' = "unmount"
  /\ UNCHANGED << regularPulseTrigger, verticalPulseTrigger, verticalPulsesState,
                  indepTimers, sinceRegular >>

\* ------------------------------------------------------------- line waves
\* useLineWaveEffect (Grid/hooks/useGridEffectsManager.tsx, lines 121-215),
\* called by LineWaves.  A wave is its startTime; times are in ms.
WaveOptionsTried ==
  { [interval |-> 4000, maxRadius |-> 50, speed |-> 30, maxWaves |-> 3],
    [interval |-> 1000, maxRadius |-> 50, speed |-> 30, maxWaves |-> 1] }

\* ((currentTime - wave.startTime) / 1000) * options.speed <= options.maxRadius
WaveKept(startTime, currentTime, options) ==
  (currentTime - startTime) * options.speed <= options.maxRadius * 1000

WaveIdle ==
  /\ waveOptions = [interval |-> 4000, maxRadius |-> 50, speed |-> 30, maxWaves |-> 3]
  /\ waves = << >>
  /\ renderedWaves = << >>
  /\ spawnClosure = << >>
  /\ waveNow = 0
  /\ nextWaveTick = 0

\* The first render and its effect: setInterval(spawnLineWave, options.interval)
\* with the spawnLineWave of that render.
WaveInit ==
  /\ waveOptions \in WaveOptionsTried
  /\ waves = << >>
  /\ renderedWaves = << >>
  /\ spawnClosure = << >>
  /\ waveNow = 0
  /\ nextWaveTick = waveOptions.interval

\* The interval callback: spawnLineWave of the render in which the effect
\* ran.  The effect depends on options.interval only.
spawnLineWave ==
  /\ waveNow >= nextWaveTick
  /\ nextWaveTick' = nextWaveTick + waveOptions.interval
  /\ IF Len(spawnClosure) >= waveOptions.maxWaves
       THEN UNCHANGED waves
       ELSE waves' = Append(waves, waveNow)
  /\ UNCHANGED << waveOptions, renderedWaves, spawnClosure, waveNow >>

\* The frame callback: updateLineWaves queues the filter that removes the
\* finished waves.
WaveFrame ==
  /\ waves' = SelectSeq(waves, LAMBDA startTime : WaveKept(startTime, waveNow, waveOptions))
  /\ UNCHANGED << waveOptions, renderedWaves, spawnClosure, waveNow, nextWaveTick >>

\* The component renders again: new closures, which useFrame picks up; the
\* interval keeps the callback it was created with.
WaveRender ==
  /\ renderedWaves' = waves
  /\ UNCHANGED << waveOptions, waves, spawnClosure, waveNow, nextWaveTick >>

\* Time passes; the interval callback runs when it is due.
WaveAdvance(d) ==
  /\ waveNow < nextWaveTick
  /\ waveNow + d <= nextWaveTick
  /\ waveNow + d <= WaveMaxTime
  /\ waveNow' = waveNow + d
  /\ UNCHANGED << waveOptions, waves, renderedWaves, spawnClosure, nextWaveTick >>

\* ----------------------------------------------------------- specifications
\* The components a specification does not follow are not rendered.
OldIdle == EnvIdle /\ GridIdle /\ PulseIdle /\ TurnIdle

LaterIdle == ManagerIdle /\ IndepIdle /\ WaveIdle

NewIdle == FractionIdle /\ ConstantIdle /\ LaterIdle

Init == SchedInit /\ MatInit /\ EnvIdle /\ GridIdle /\ PulseIdle /\ TurnIdle /\ NewIdle

Next ==
  \/ \E type \in ConfigKinds : TriggerEffect(type) /\ UNCHANGED << mvars, fvars >>
  \/ \E random \in 0..(totalWeight * RandRes - 1) : IntervalTick(random) /\ UNCHANGED << mvars, fvars >>
  \/ \E i \in 1..Len(timers) : GateRelease(i) /\ UNCHANGED << mvars, fvars >>
  \/ Frame /\ UNCHANGED << mvars, fvars >>
  \/ \E d \in Deltas : Advance(d) /\ UNCHANGED << mvars, fvars >>
  \/ \E d \in BackSteps : ClockBack(d) /\ UNCHANGED << mvars, fvars >>

\* The scheduler, called with the kinds of its configuration table.
Spec == Init /\ [][Next]_vars

NextLive ==
  \/ \E random \in 0..(totalWeight * RandRes - 1) : IntervalTick(random) /\ UNCHANGED << mvars, fvars >>
  \/ \E i \in 1..Len(timers) : GateRelease(i) /\ UNCHANGED << mvars, fvars >>
  \/ Frame /\ UNCHANGED << mvars, fvars >>
  \/ \E d \in Deltas : AdvanceLong(d) /\ UNCHANGED << mvars, fvars >>
  \/ \E d \in BackSteps : ClockBack(d) /\ UNCHANGED << mvars, fvars >>

\* The scheduler under the scheduling the runtime provides: frames keep being
\* rendered, time advances and timers whose deadline has passed fire.
LiveSpec ==
  /\ Init
  /\ [][NextLive]_vars
  /\ WF_vars(Frame /\ UNCHANGED << mvars, fvars >>)
  /\ WF_vars(\E d \in Deltas : AdvanceLong(d) /\ UNCHANGED << mvars, fvars >>)
  /\ WF_vars(\E i \in 1..Len(timers) : GateRelease(i) /\ UNCHANGED << mvars, fvars >>)
  /\ WF_vars(\E random \in 0..(totalWeight * RandRes - 1) : IntervalTick(random) /\ UNCHANGED << mvars, fvars >>)

NextAuto ==
  \/ \E random \in 0..(totalWeight * RandRes - 1) : IntervalTick(random) /\ UNCHANGED << mvars, fvars >>
  \/ \E i \in 1..Len(timers) : GateRelease(i) /\ UNCHANGED << mvars, fvars >>
  \/ Frame /\ UNCHANGED << mvars, fvars >>
  \/ \E d \in Deltas : AdvanceLong(d) /\ UNCHANGED << mvars, fvars >>

\* The scheduler driven by its interval, its timers and the frame loop alone.
SpecAuto == Init /\ [][NextAuto]_vars

NextMat ==
  \/ \E type \in ConfigKinds : TriggerEffect(type) /\ Components /\ UNCHANGED fvars
  \/ \E random \in 0..(totalWeight * RandRes - 1) : IntervalTick(random) /\ Components /\ UNCHANGED fvars
  \/ \E i \in 1..Len(timers) : GateRelease(i) /\ Components /\ UNCHANGED fvars
  \/ Frame /\ Components /\ UNCHANGED fvars
  \/ \E d \in Deltas : AdvanceMat(d) /\ Components /\ UNCHANGED fvars

\* The scheduler together with the effect components it renders.
SpecMat == Init /\ [][NextMat]_vars

LinesSpecInit == SchedInit /\ LinesInit /\ EnvIdle /\ GridIdle /\ PulseIdle /\ TurnIdle /\ NewIdle

NextLines ==
  \/ \E type \in ConfigKinds : MountComponent(type) /\ UNCHANGED fvars
  \/ ComponentFrames /\ UNCHANGED fvars
  \/ \E i \in 1..Len(children) : UnmountComponent(i) /\ UNCHANGED fvars
  \/ LineWaveFrame /\ UNCHANGED fvars
  \/ GridPulseHookFrame /\ UNCHANGED fvars
  \/ \E d \in LineDeltas : AdvanceLines(d) /\ UNCHANGED fvars

\* The effect components and line hooks on lines of any shape.
SpecLines == LinesSpecInit /\ [][NextLines]_vars

GridSpecInit == SchedInit /\ MatInit /\ EnvIdle /\ GridInit /\ PulseIdle /\ TurnIdle /\ NewIdle

NextGrid ==
  \/ SweepVertical /\ UNCHANGED << svars, mvars, evars, pvars, tvars, nvars >>
  \/ SweepHorizontal /\ UNCHANGED << svars, mvars, evars, pvars, tvars, nvars >>
  \/ CalculateIntersections /\ UNCHANGED << svars, mvars, evars, pvars, tvars, nvars >>

\* The construction of the grid.
GridSpec == GridSpecInit /\ [][NextGrid]_vars

NextAnyKind ==
  \/ \E type \in ConfigKinds \cup EffectType : TriggerEffect(type) /\ UNCHANGED << mvars, fvars >>
  \/ \E random \in 0..(totalWeight * RandRes - 1) : IntervalTick(random) /\ UNCHANGED << mvars, fvars >>
  \/ \E i \in 1..Len(timers) : GateRelease(i) /\ UNCHANGED << mvars, fvars >>
  \/ Frame /\ UNCHANGED << mvars, fvars >>
  \/ \E d \in Deltas : Advance(d) /\ UNCHANGED << mvars, fvars >>

\* The scheduler, called with any kind its parameter type admits.
SpecAnyKind == Init /\ [][NextAnyKind]_vars

\* The envelope as a function of (kind, elapsed).
EnvSpecInit == SchedInit /\ MatInit /\ EnvInit /\ GridIdle /\ PulseIdle /\ TurnIdle /\ NewIdle

EnvNext == Evaluate /\ UNCHANGED << svars, mvars, gvars, pvars, tvars, nvars >>

EnvSpec == EnvSpecInit /\ [][EnvNext]_vars

PulseSpecInit == SchedInit /\ MatInit /\ EnvIdle /\ GridIdle /\ PulseInit /\ TurnIdle /\ NewIdle

NextPulse ==
  \/ \E choice \in [1..verticalPulses -> PulseVerticals(pulseProps.gridLines)] :
       TriggerPulses(choice) /\ UNCHANGED << svars, mvars, evars, gvars, tvars, nvars >>
  \/ \E choice \in [1..verticalPulses -> PulseVerticals(pulseProps.gridLines)] :
       PulseRerender(choice) /\ UNCHANGED << svars, mvars, evars, gvars, tvars, nvars >>
  \/ \E step \in FrameSteps : PulseFrame(step) /\ UNCHANGED << svars, mvars, evars, gvars, tvars, nvars >>
  \/ PulseUnmount /\ UNCHANGED << svars, mvars, evars, gvars, tvars, nvars >>

\* The energy pulses on a grid.
PulseSpec == PulseSpecInit /\ [][NextPulse]_vars

TurnSpecInit ==
  SchedInit /\ MatInit /\ EnvIdle /\ GridIdle /\ PulseIdle /\ TurnInit /\ NewIdle

\* Every callback is followed by a render before the next one runs.
NextTurn ==
  \/ \E draws \in [1..turnProps.maxPulses -> [line : Rolls, start : Rolls]] :
       TurnTrigger(draws) /\ turnShown' = turnPulses' /\ UNCHANGED unrendered
         /\ UNCHANGED << svars, mvars, evars, gvars, pvars, nvars >>
  \/ \E step \in TurnSteps :
     \E draw \in IF SpawnsNow(step) THEN [line : Rolls, start : Rolls, next : Rolls]
                  ELSE { [line |-> 0, start |-> 0, next |-> 0] } :
       \E rolls \in [DrawsARoll(AfterSpawn(step, draw), turnProps.gridLines)
                      -> [turn : Rolls, pick : Rolls, side : Rolls]] :
         TurnFrame(step, draw, rolls) /\ turnShown' = turnPulses'
           /\ UNCHANGED unrendered
           /\ UNCHANGED << svars, mvars, evars, gvars, pvars, nvars >>

\* The turning energy pulses on a grid.
TurnSpec == TurnSpecInit /\ [][NextTurn]_vars

\* The timer variant with maxPulses 1.
TurnLateSpecInit ==
  /\ TurnSpecInit
  /\ turnProps.variant = "timer"
  /\ turnProps.maxPulses = 1

\* The timer variant, where a frame callback may run before the render that
\* the callback before it asked for.
NextTurnLate ==
  \/ \E step \in TurnSteps :
     \E draw \in IF SpawnsNow(step) THEN [line : Rolls, start : Rolls, next : Rolls]
                  ELSE { [line |-> 0, start |-> 0, next |-> 0] } :
       \E rolls \in [DrawsARoll(AfterSpawn(step, draw), turnProps.gridLines)
                      -> [turn : Rolls, pick : Rolls, side : Rolls]] :
         TurnFrame(step, draw, rolls)
           /\ unrendered < MaxUnrendered
           /\ unrendered' = unrendered + 1
           /\ UNCHANGED << turnShown, svars, mvars, evars, gvars, pvars, nvars >>
  \/ TurnRender /\ UNCHANGED << svars, mvars, evars, gvars, pvars, nvars >>

TurnLateSpec == TurnLateSpecInit /\ [][NextTurnLate]_vars

FractionSpecInit ==
  SchedInit /\ MatInit /\ OldIdle /\ FractionInit /\ ConstantIdle /\ LaterIdle

NextFraction ==
  \/ \E lineRoll \in Rolls : \E startRoll \in Rolls :
       handleSpawn(lineRoll, startRoll)
         /\ UNCHANGED << svars, mvars, evars, gvars, pvars, tvars, cvars, lvars >>
  \/ \E elapsed \in FractionSteps :
       \E rolls \in [FractionDraws(Aged(pulsesRef, elapsed), FractionGrid)
                      -> [turn : Rolls, side : Rolls]] :
         FractionFrame(elapsed, rolls)
           /\ UNCHANGED << svars, mvars, evars, gvars, pvars, tvars, cvars, lvars >>

\* The fraction-based energy pulses on a grid.
FractionSpec == FractionSpecInit /\ [][NextFraction]_vars

ConstantSpecInit ==
  SchedInit /\ MatInit /\ OldIdle /\ FractionIdle /\ ConstantInit /\ LaterIdle

NextConstant ==
  \E step \in TurnSteps : \E roll \in Rolls :
    ConstantFrame(step, roll)
      /\ UNCHANGED << svars, mvars, evars, gvars, pvars, tvars, qvars, lvars >>

\* The constant-count energy pulses on a grid.
ConstantSpec == ConstantSpecInit /\ [][NextConstant]_vars

\* the variables outside the effect manager and the trigger chains
ovars == << svars, mvars, evars, gvars, pvars, tvars, qvars, cvars >>

EarlyIdle == SchedInit /\ MatInit /\ OldIdle /\ FractionIdle /\ ConstantIdle

ManagerSpecInit == EarlyIdle /\ ManagerInit /\ IndepIdle /\ WaveIdle

NextManager ==
  \E time \in 0..ManagerMaxTime : \E roll \in ManagerRolls : \E wave \in Waves :
    computeEffect(time, roll, wave) /\ UNCHANGED << ovars, ivars, wvars >>

\* The effect manager, called with any times.
ManagerSpec == ManagerSpecInit /\ [][NextManager]_vars

IndepSpecInit == EarlyIdle /\ ManagerIdle /\ IndepInit /\ WaveIdle

IndepTimerFires ==
  \E i \in 1..Len(indepTimers) : \E roll \in IndepRolls :
    \/ triggerRegularPulse(i) /\ UNCHANGED << ovars, xvars, wvars >>
    \/ RegularRelease(i, roll) /\ UNCHANGED << ovars, xvars, wvars >>
    \/ triggerVerticalPulse(i, roll) /\ UNCHANGED << ovars, xvars, wvars >>
    \/ VerticalRelease(i, roll) /\ UNCHANGED << ovars, xvars, wvars >>

NextIndep ==
  \/ IndepTimerFires
  \/ IndepAdvance /\ UNCHANGED << ovars, xvars, wvars >>
  \/ IndepUnmount /\ UNCHANGED << ovars, xvars, wvars >>

\* The trigger chains of IndependentGridEffects, mounted once and unmounted
\* at any time.
IndepSpec == IndepSpecInit /\ [][NextIndep]_vars

\* The same, with timers that eventually fire.
IndepLiveSpec ==
  /\ IndepSpecInit
  /\ [][NextIndep]_vars
  /\ WF_vars(IndepTimerFires)
  /\ WF_vars(IndepAdvance /\ UNCHANGED << ovars, xvars, wvars >>)

WaveSpecInit == EarlyIdle /\ ManagerIdle /\ IndepIdle /\ WaveInit

NextWave ==
  \/ spawnLineWave /\ UNCHANGED << ovars, xvars, ivars >>
  \/ WaveFrame /\ UNCHANGED << ovars, xvars, ivars >>
  \/ WaveRender /\ UNCHANGED << ovars, xvars, ivars >>
  \/ \E d \in {500, 1000} : WaveAdvance(d) /\ UNCHANGED << ovars, xvars, ivars >>

\* The line waves: interval callbacks, frames and renders in any order.
WaveSpec == WaveSpecInit /\ [][NextWave]_vars


\* ------------------------------------------------------------------ claims
IsZero(q) == q[1] = 0
IsOne(q) == q[1] = q[2]
PoolIndices == 1..Len(activeEffects)

\* C1: the pool never holds two primary effect instances, under every
\* interleaving of interval ticks, gate-release timers and frame updates.
C1_AtMostOnePrimaryEffect == Len(activeEffects) <= 1

\* C2: after triggerEffect is called twice in immediate succession, the first
\* call being admitted and its release timer still pending, the pool holds
\* exactly one effect instance.
C2_DoubleTriggerLeavesOneInstance ==
  [][ (lastOp = "triggerEffect" /\ didAdmit /\ calls' = calls + 1)
        => Len(activeEffects') = 1 ]_vars

\* C3: a triggerEffect call or an interval tick that arrives while the gate is
\* held changes neither the pool, the last-selected kind, the gate flag nor
\* the pending gate-release timers.
C3_GatedCallIsNoOp ==
  [][ (isPlayingRef /\ (calls' # calls \/ nextTick' # nextTick))
        => UNCHANGED << activeEffects, lastEffectRef, isPlayingRef, timers >> ]_vars

\* C3 witness: a triggerEffect call was dropped at the held gate (its kind is
\* not the kind that was admitted last).
C3_Witness ==
  /\ lastOp = "triggerEffect"
  /\ isPlayingRef
  /\ ~didAdmit
  /\ lastArg # lastEffectRef
  /\ activeEffects # << >>

\* C4: each effect admitted by the automatic scheduler is of another kind
\* than the effect admitted before it.
C4_NoImmediateRepeat ==
  [][ (nextTick' # nextTick /\ Len(activeEffects') > Len(activeEffects))
        => activeEffects'[Len(activeEffects')].type # lastAdmitted ]_vars

\* C4 witness: the interval admitted an effect while the previously admitted
\* one was still in the pool, and the two kinds differ.
C4_Witness ==
  /\ lastOp = "interval"
  /\ didAdmit
  /\ Len(activeEffects) >= 2
  /\ activeEffects[Len(activeEffects)].type # activeEffects[Len(activeEffects) - 1].type

\* C5: a triggerEffect call for a kind that is not in EFFECTS_CONFIG raises
\* nothing and leaves the pool and the gate unchanged, and no later frame
\* update raises because of it.
C5_UnknownKindIgnored ==
  /\ raised = "none"
  /\ \A i \in PoolIndices : activeEffects[i].type \in ConfigKinds

\* An effect whose expiry lies within the horizon of the clocks.
Expirable(effect) ==
  effect.startTime + EFFECTS_CONFIG[effect.type].duration + MaxSkew <= LongMaxTime

\* C6: every admitted effect eventually leaves the pool, given that frames
\* keep being rendered and time advances: a frame whose time is at or after
\* startTime + duration removes it, at the gate held or clear.
C6_AdmittedEffectEventuallyLeaves ==
  /\ <>[](\A i \in PoolIndices : ~Expirable(activeEffects[i]))
  /\ [][ lastOp' = "useFrame" =>
           \A i \in PoolIndices :
             wall >= activeEffects[i].startTime + EFFECTS_CONFIG[activeEffects[i].type].duration
               => \A j \in 1..Len(activeEffects') :
                    \/ activeEffects'[j].type # activeEffects[i].type
                    \/ activeEffects'[j].startTime # activeEffects[i].startTime ]_vars

\* C6 witness: a frame rendered while the gate was held has emptied the pool.
C6_Witness ==
  /\ lastOp = "useFrame"
  /\ isPlayingRef
  /\ lastAdmitted # "null"
  /\ activeEffects = << >>

\* C7: after every frame update, no effect in the pool has an elapsed time
\* (frame time minus start time) of its duration or more.
C7_NoExpiredEffectAfterFrame ==
  lastOp = "useFrame" =>
    \A i \in PoolIndices :
      wall - activeEffects[i].startTime < EFFECTS_CONFIG[activeEffects[i].type].duration

\* C7 witness: a frame update pruned one effect and kept a younger one.
C7_Witness ==
  /\ lastOp = "useFrame"
  /\ Len(activeEffects) = 1
  /\ lastAdmitted = activeEffects[1].type
  /\ ~isPlayingRef
  /\ wall - activeEffects[1].startTime > 0

\* C8: for every kind whose fade-in plus fade-out is less than its duration,
\* the envelope is 0 at elapsed 0, 1 at elapsed duration/2 and 0 at elapsed
\* duration.
C8_EnvelopeEndpointsAndHold ==
  (/\ envOut # << >>
   /\ EnvFadeIn(envVariant, envKind) + EnvFadeOut(envVariant, envKind)
        < EnvDuration(envVariant, envKind))
    => /\ envElapsed = 0 => IsZero(envOut[1])
       /\ 2 * envElapsed = EnvDuration(envVariant, envKind) => IsOne(envOut[1])
       /\ envElapsed = EnvDuration(envVariant, envKind) => IsZero(envOut[1])

\* C8 witness: the envelope was evaluated at the end of a gridPulse.
C8_Witness ==
  /\ envOut # << >>
  /\ envVariant = "GridEffects"
  /\ envKind = "gridPulse"
  /\ envElapsed = EFFECTS_CONFIG.gridPulse.duration

\* C9: the intensity stored for every effect in the pool lies in [0, 1],
\* whatever the elapsed time, negative or beyond the duration.
C9_IntensityInUnitInterval ==
  \A i \in PoolIndices :
    /\ activeEffects[i].intensity[2] > 0
    /\ 0 <= activeEffects[i].intensity[1]
    /\ activeEffects[i].intensity[1] <= activeEffects[i].intensity[2]

\* C9 witness: a frame update ran on an effect whose elapsed time is negative.
C9_Witness ==
  /\ lastOp = "useFrame"
  /\ \E i \in PoolIndices : wall - activeEffects[i].startTime < 0

\* The displayed colour and emissive of a line are its resting values.
AtRest(ln) ==
  /\ ln.material = StdMaterial
  /\ Material(ln).color = RestColor
  /\ Material(ln).emissive = RestEmissive

\* C10: once a primary effect has fully expired (it left the pool and its
\* component unmounted), every grid line it touched displays exactly its
\* resting colour and emissive, whatever effects ran before it.
C10_LinesAtRestAfterExpiry ==
  (activeEffects = << >> /\ children = << >> /\ childError = "none")
    => \A l \in GridLines : AtRest(lines[l])

\* C11: no effect operation (frame update, mount, restore, cleanup of any
\* component or line hook) changes a line's userData.baseColor or
\* userData.emissiveBase: every step leaves both as they were constructed.
C11_BaseColoursNeverChange ==
  [][\A l \in DOMAIN lines : lines'[l].userData = lines[l].userData]_vars

\* A GridPulse is mounted and has written a colour other than the resting
\* one onto a line whose userData is intact.
C11_Witness ==
  \E l \in DOMAIN lines :
    /\ HasBase(lines[l]) /\ lines[l].material = StdMaterial
    /\ Material(lines[l]).color = multiplyScalar(BaseColor, 3)
    /\ \E i \in 1..Len(children) : children[i].type = "gridPulse"
    /\ lines[l].userData = createTube.userData

\* C12: a frame update writes colours computed from userData.baseColor /
\* userData.emissiveBase (or the values captured at mount) and that frame's
\* factors only, never from the displayed value: applying the same frame
\* update twice gives the same lines as applying it once.
C12_FrameUpdateIdempotent ==
  /\ \A i \in 1..Len(children), l \in DOMAIN lines, ch \in FrameChoices :
       LET once == ChildFrameLine(children[i], l, lines[l], wall, ch)
       IN  ChildFrameLine(children[i], l, once, wall, ch) = once
  /\ \A hits \in [DOMAIN lines -> BOOLEAN] :
       LET once == updateLineWaves(lines, hits)
       IN  once.error = "none" => updateLineWaves(once.lines, hits) = once
  /\ \A pulse \in PulseValues :
       LET once == useGridPulseEffect(lines, pulse)
       IN  once.error = "none" => useGridPulseEffect(once.lines, pulse) = once

\* A GridPulse is mounted on a line that displays a colour a frame wrote and
\* that differs from what the next frame may write.
C12_Witness ==
  /\ childError = "none"
  /\ \E i \in 1..Len(children) : children[i].type = "gridPulse"
  /\ \E l \in DOMAIN lines :
       /\ HasBase(lines[l]) /\ lines[l].material = StdMaterial
       /\ Material(lines[l]).color = multiplyScalar(BaseColor, 3)
       /\ Material(lines[l]).emissive = multiplyScalar(BaseColor, 5)

\* C13: mounting, updating and unmounting an effect component never throws
\* when some grid line has no mesh, no material or no baseColor /
\* emissiveBase.
C13_MalformedLinesTolerated ==
  childError \notin ConfigKinds

\* The indices recorded in a line's intersections.
Recorded(i) == { grid[i].intersections[k] : k \in 1..Len(grid[i].intersections) }

VerticalLines == { i \in 1..Len(grid) : grid[i].isVertical }
HorizontalLines == { i \in 1..Len(grid) : ~grid[i].isVertical }

\* C14: after construction the intersection relation is symmetric: j is in
\* lines[i].intersections if and only if i is in lines[j].intersections.
C14_IntersectionsSymmetric ==
  phase = "done" =>
    \A i, j \in 1..Len(grid) : (j \in Recorded(i)) <=> (i \in Recorded(j))

\* A constructed grid in which some pair of lines is recorded.
C14_Witness ==
  phase = "done" /\ \E i, j \in 1..Len(grid) : j \in Recorded(i) /\ i \in Recorded(j)

\* C15: a vertical and a horizontal line are recorded as intersecting if and
\* only if each line's coordinate lies in the other's closed [start, end]
\* span; two lines of the same orientation are never recorded.
C15_RecordedIffCrossing ==
  phase = "done" =>
    /\ \A v \in VerticalLines, h \in HorizontalLines :
         (h \in Recorded(v) /\ v \in Recorded(h)) <=>
           /\ grid[h].start <= grid[v].coordinate /\ grid[v].coordinate <= grid[h].end
           /\ grid[v].start <= grid[h].coordinate /\ grid[h].coordinate <= grid[v].end
    /\ \A i, j \in 1..Len(grid) :
         grid[i].isVertical = grid[j].isVertical => j \notin Recorded(i)

\* A constructed grid with a recorded pair in which the vertical line lies on
\* the end of the horizontal line's span.
C15_Witness ==
  /\ phase = "done"
  /\ \E v \in VerticalLines, h \in HorizontalLines :
       h \in Recorded(v) /\ grid[v].coordinate = grid[h].start

\* C16: in a grid built from positive gridWidth, gridDepth and spacing every
\* vertical line's intersections holds the index of every horizontal line
\* exactly once, and every horizontal line's that of every vertical line.
C16_EveryPairExactlyOnce ==
  (phase = "done" /\ props.spacing > 0) =>
    /\ \A v \in VerticalLines :
         /\ Recorded(v) = HorizontalLines
         /\ Len(grid[v].intersections) = Cardinality(HorizontalLines)
    /\ \A h \in HorizontalLines :
         /\ Recorded(h) = VerticalLines
         /\ Len(grid[h].intersections) = Cardinality(VerticalLines)

\* A constructed grid with several lines of each orientation.
C16_Witness ==
  /\ phase = "done" /\ props.spacing > 0
  /\ Cardinality(VerticalLines) >= 3 /\ Cardinality(HorizontalLines) >= 3

\* C17: for positive gridWidth, gridDepth and spacing the construction
\* produces floor(gridWidth / spacing) + 1 vertical and
\* floor(gridDepth / spacing) + 1 horizontal lines.
C17_LineCounts ==
  (phase \in {"intersections", "done"} /\ props.spacing > 0) =>
    /\ Cardinality(VerticalLines) = props.gridWidth \div props.spacing + 1
    /\ Cardinality(HorizontalLines) = props.gridDepth \div props.spacing + 1

\* C18: with zero or negative spacing the construction ends with an error
\* and builds no line.
C18_DegenerateSpacingFailsFast ==
  props.spacing <= 0 => (grid = << >> \/ phase = "error")

\* C19: a pulse never branches twice at the same horizontal line: for every
\* pulse and every horizontal line, spawnChildPulses is called for that pair
\* at most once, however many frames the pulse spends within the
\* intersection tolerance of the line.
C19_NoRepeatedBranchingAtALine ==
  \A i, j \in DOMAIN branchings :
    (branchings[i].parent = branchings[j].parent
       /\ branchings[i].line = branchings[j].line) => i = j

\* A pulse that branched at a line in an earlier frame was tested again in
\* its last frame while still within the tolerance of that line.
C19_Witness ==
  \E k \in DOMAIN pulses, i \in DOMAIN branchings :
    /\ branchings[i].parent = pulses[k].id
    /\ branchings[i].children > 0
    /\ pulses[k].currentZ # branchings[i].at
    /\ pulses[k].currentZ # Undefined
    /\ Abs(pulses[k].currentZ - pulseProps.gridLines[branchings[i].line].coordinate)
         < INTERSECTION_TOLERANCE

\* C20: every pulse undergoes at most one branching event in its lifetime:
\* once it has spawned children at one crossing it spawns none at any
\* later crossing.
C20_AtMostOneBranchingPerPulse ==
  \A i, j \in DOMAIN branchings :
    (branchings[i].parent = branchings[j].parent
       /\ branchings[i].children > 0 /\ branchings[j].children > 0) => i = j

\* The pulses of the next pool that the branching `event` added: not in the
\* pool before, children of the event's parent, on the event's line.
NewChildren(event) ==
  { k \in DOMAIN pulses' :
      /\ pulses'[k].id \notin { pulses[n].id : n \in DOMAIN pulses }
      /\ pulses'[k].parentId = event.parent
      /\ pulses'[k].line = event.line
      /\ ~pulses'[k].isVertical }

\* `event` is a spawnChildPulses call of the step.
IsNewCall(event) == \A j \in DOMAIN branchings : branchings[j] # event

\* One pulse per direction, both at the x-coordinate of the parent's line.
OnePerDirectionAt(kids, event) ==
  /\ Cardinality(kids) = 2
  /\ { pulses'[k].direction : k \in kids } = {-1, 1}
  /\ \A k \in kids :
       \E n \in DOMAIN pulses :
         /\ pulses[n].id = event.parent
         /\ Position(pulses'[k], pulseProps.gridLines)
              = pulseProps.gridLines[pulses[n].line].coordinate

\* C21 as stated: every branching event adds exactly two pulses to the pool,
\* both on the intersecting horizontal line at the parent's x-coordinate, one
\* moving in the -x direction and one in the +x direction.
C21_EveryBranchingAddsTwo ==
  [][\A i \in DOMAIN branchings' :
       IsNewCall(branchings'[i]) => OnePerDirectionAt(NewChildren(branchings'[i]), branchings'[i])]_vars

\* C21 amended: a branching event adds exactly two such pulses when the pool
\* of the last render holds fewer than 1.5 * maxPulses pulses, and none
\* otherwise.
C21_BranchingAddsTwoOrNone ==
  [][\A i \in DOMAIN branchings' :
       IsNewCall(branchings'[i]) =>
         IF 2 * Len(pulses) < 3 * pulseProps.maxPulses
         THEN OnePerDirectionAt(NewChildren(branchings'[i]), branchings'[i])
         ELSE NewChildren(branchings'[i]) = {}]_vars

\* The two children a branching added are in the pool, and a later
\* branching of the same parent added none.
C21_Witness ==
  \E i, j \in DOMAIN branchings, k, n \in DOMAIN pulses :
    /\ branchings[i].children = 2
    /\ branchings[j].children = 0
    /\ branchings[j].parent = branchings[i].parent
    /\ pulses[k].parentId = branchings[i].parent
    /\ pulses[n].parentId = branchings[i].parent
    /\ pulses[k].line = branchings[i].line
    /\ pulses[n].line = branchings[i].line
    /\ pulses[k].direction = -1
    /\ pulses[n].direction = 1

\* position within [min(start, end) - 0.1, max(start, end) + 0.1] of `line`,
\* in fiftieths
InExtent(position, line) ==
  /\ position >= (IF line.start <= line.end THEN line.start ELSE line.end) - 5
  /\ position <= (IF line.start <= line.end THEN line.end ELSE line.start) + 5

\* The position of `pulse` after a frame with pulseSpeed * delta = step.
NextPosition(pulse, step) ==
  LET line == pulseProps.gridLines[pulse.line]
  IN  Position(pulse, pulseProps.gridLines)
        + ((step * pulse.speed) \div 10) * pulse.direction
          * (IF line.end >= line.start THEN 1 ELSE -1)

\* The step is a frame of the animation loop.
IsFrame == lastTriggerRef' = lastTriggerRef /\ pulses' # pulses

\* C22: after every frame update every pulse in the pool has its position
\* along its line within [min(start, end) - 0.1, max(start, end) + 0.1], and
\* a frame keeps a pulse exactly when its next position is within that range.
C22_PulsesStayWithinExtent ==
  /\ [](\A k \in DOMAIN pulses :
          InExtent(Position(pulses[k], pulseProps.gridLines),
                   pulseProps.gridLines[pulses[k].line]))
  /\ [][IsFrame =>
          \E step \in FrameSteps :
            \A k \in DOMAIN pulses :
              InExtent(NextPosition(pulses[k], step), pulseProps.gridLines[pulses[k].line])
                <=> \E n \in DOMAIN pulses' :
                      /\ pulses'[n].id = pulses[k].id
                      /\ Position(pulses'[n], pulseProps.gridLines)
                           = NextPosition(pulses[k], step)]_vars

\* After one trigger a pulse has run off its line and been removed while
\* another is in the pool beyond the end of its line, within the margin.
C22_Witness ==
  /\ lastTriggerRef = 1
  /\ Len(pulses) < pulseIdCounter
  /\ \E k \in DOMAIN pulses :
       /\ pulses[k].currentZ # Undefined
       /\ Position(pulses[k], pulseProps.gridLines)
            > MaxOf(pulseProps.gridLines[pulses[k].line].start,
                    pulseProps.gridLines[pulses[k].line].end)

\* |line.end - line.start| of the line `pulse` runs on
LineLength(pulse) ==
  Abs(pulseProps.gridLines[pulse.line].end - pulseProps.gridLines[pulse.line].start)

\* The pulses that started at fraction 0 and whose frames' pulseSpeed * delta
\* sum to the length of their line.
AtLineEnd ==
  { k \in DOMAIN pulses : ~pulses[k].isChild /\ pulses[k].travelled = LineLength(pulses[k]) }

\* C23 as stated: a pulse that starts at fraction 0 has line fraction 1 once
\* its frame deltas sum to L / V, however that time is split into frames, and
\* the next frame removes it from the pool.
C23_RemovedTheTickAfterFractionOne ==
  /\ [](\A k \in AtLineEnd : pulses[k].lineFraction = LineLength(pulses[k]))
  /\ [][IsFrame =>
          \A k \in AtLineEnd :
            \A n \in DOMAIN pulses' : pulses'[n].id # pulses[k].id]_vars

\* C23 amended: such a pulse has line fraction 1 once its frame deltas sum to
\* L / V, and the next frame removes it exactly when that frame's
\* pulseSpeed * delta exceeds 0.1; a smaller frame leaves it in the pool,
\* beyond the end of its line.
C23_RemovedByTheNextTickOverTolerance ==
  /\ [](\A k \in AtLineEnd : pulses[k].lineFraction = LineLength(pulses[k]))
  /\ [][IsFrame =>
          \A k \in AtLineEnd :
            IF lastStep' > 5
            THEN \A n \in DOMAIN pulses' : pulses'[n].id # pulses[k].id
            ELSE \E n \in DOMAIN pulses' :
                   /\ pulses'[n].id = pulses[k].id
                   /\ pulses'[n].lineFraction = LineLength(pulses[k]) + lastStep']_vars

\* A pulse that was at fraction 1 is in the pool after a further frame whose
\* pulseSpeed * delta is 0.1.
C23_Witness ==
  \E k \in DOMAIN pulses :
    /\ ~pulses[k].isChild
    /\ lastStep = 5
    /\ pulses[k].travelled = LineLength(pulses[k]) + 5
    /\ pulses[k].lineFraction = pulses[k].travelled

\* C24: whenever a pulse leaves the pool, by running off its line or by the
\* reset of a new trigger, its mesh is removed from the group and its
\* geometry and material are disposed: every mesh in the group belongs to a
\* pulse in the pool, and every pulse created that is no longer in the pool
\* is disposed.
C24_MeshesLeaveWithTheirPulse ==
  pulseMounted =>
    /\ groupMeshes \subseteq Ids(pulses)
    /\ \A id \in 0..(pulseIdCounter - 1) : id \notin Ids(pulses) => id \in disposed

\* C25: when the component unmounts, every pulse that is in the pool at that
\* moment has its geometry and material disposed.
C25_UnmountDisposesThePool ==
  ~pulseMounted => Ids(pulses) \subseteq disposed

\* C26: when the weighted draw of the interval callback reselects the kind
\* played last, the kind triggered is the first entry of the weight table
\* that differs from it (last gridPulse gives neonPulse, last neonPulse or
\* neonRipple gives gridPulse); when the draw differs from the kind played
\* last, the drawn kind is triggered unchanged.
C26_SubstitutesFirstOtherKind ==
  [][(lastOp' = "interval" /\ lastDraw' # "none") =>
       lastArg' = IF lastDraw' # lastEffectRef THEN lastDraw'
                  ELSE IF lastEffectRef = "gridPulse" THEN "neonPulse"
                  ELSE "gridPulse"]_vars

\* An interval callback drew neonRipple, the kind played last, and
\* triggered gridPulse in its place.
C26_Witness ==
  /\ lastOp = "interval"
  /\ lastDraw = "neonRipple"
  /\ lastArg = "gridPulse"
  /\ didAdmit

\* The draw range [0, totalWeight) cut into cells of width 1 / RandRes.
DrawCells == 0..(totalWeight * RandRes - 1)

\* The number of cells at whose midpoint the for-loop selects `kind`
DrawShare(kind) ==
  Cardinality({ k \in DrawCells : DrawAt(1, 2 * k + 1, 2 * RandRes) = kind })

\* C27: before the no-repeat substitution the weighted draw selects kinds in
\* proportion to their weights: of the range [0, 5) of the draw value,
\* gridPulse (weight 1) is chosen for one fifth, neonPulse (2) and neonRipple
\* (2) for two fifths each, and every draw value selects exactly one kind,
\* which an interval callback then uses as its draw.
C27_DrawProportionalToWeights ==
  /\ 5 * DrawShare("gridPulse") = 1 * Cardinality(DrawCells)
  /\ 5 * DrawShare("neonPulse") = 2 * Cardinality(DrawCells)
  /\ 5 * DrawShare("neonRipple") = 2 * Cardinality(DrawCells)
  /\ \A n \in 0..(2 * totalWeight * RandRes - 1) :
       DrawAt(1, n, 2 * RandRes) \in {"gridPulse", "neonPulse", "neonRipple"}
  /\ \A n \in 0..(totalWeight * RandRes - 1) :
       WeightedDraw(n) = DrawAt(1, 2 * n, 2 * RandRes)
  /\ lastDraw \in {"none", "gridPulse", "neonPulse", "neonRipple"}

\* An interval callback drew neonRipple and triggered it.
C27_Witness ==
  /\ lastOp = "interval"
  /\ lastDraw = "neonRipple"
  /\ lastArg = "neonRipple"
  /\ didAdmit

\* C28: every admission is eventually followed by a gate release: the
\* admission of kind k sets the gate and creates one timer due the duration
\* of k later, the gate stays held until that timer fires, the timer clears
\* it, and, time advancing and due timers firing, a held gate whose timer is
\* due within the clock horizon becomes clear.
C28_AdmissionEventuallyReleasesGate ==
  /\ [](isPlayingRef => Len(timers) = 1)
  /\ [][(~isPlayingRef /\ isPlayingRef') =>
          timers' = << mono + EFFECTS_CONFIG[lastAdmitted'].duration >>]_vars
  /\ [][(isPlayingRef /\ ~isPlayingRef') =>
          (lastOp' = "release" /\ mono >= timers[1] /\ timers' = << >>)]_vars
  /\ [][(isPlayingRef /\ isPlayingRef') => timers' = timers]_vars
  /\ ((isPlayingRef /\ timers # << >> /\ timers[1] <= LongMaxTime) ~> ~isPlayingRef)

\* The release timer of a gridPulse has fired and cleared the gate, the
\* duration of gridPulse after its admission by the first interval tick.
C28_Witness ==
  /\ lastOp = "release"
  /\ ~isPlayingRef
  /\ timers = << >>
  /\ lastAdmitted = "gridPulse"
  /\ mono = effectInterval + EFFECTS_CONFIG.gridPulse.duration

\* The envelope of `variant` for `type` at `elapsed`
EnvAt(variant, type, elapsed) ==
  IF variant = "GridEffects" THEN Envelope(type, elapsed)
  ELSE ManagerEnvelope(type, elapsed)

\* p <= q for fractions << numerator, denominator >> with positive denominators
FractionLeq(p, q) == p[1] * q[2] <= q[1] * p[2]

\* C29: the envelope is unimodal in elapsed time: for 0 <= a <= b <= duration,
\* intensity(a) <= intensity(b) while b is in the fade-in window, intensity is
\* exactly 1 throughout the hold window, and intensity(a) >= intensity(b)
\* while a is in the fade-out window.
C29_EnvelopeUnimodal ==
  (envOut # << >> /\ 0 <= envElapsed /\ envElapsed <= EnvDuration(envVariant, envKind)) =>
    LET duration == EnvDuration(envVariant, envKind)
        fadeIn == EnvFadeIn(envVariant, envKind)
        fadeOut == EnvFadeOut(envVariant, envKind)
    IN  /\ (fadeIn <= envElapsed /\ envElapsed <= duration - fadeOut) => IsOne(envOut[1])
        /\ \A b \in ElapsedValues :
             (envElapsed <= b /\ b <= duration) =>
               /\ b <= fadeIn =>
                    FractionLeq(envOut[1], EnvAt(envVariant, envKind, b))
               /\ envElapsed >= duration - fadeOut =>
                    FractionLeq(EnvAt(envVariant, envKind, b), envOut[1])

\* The manager's envelope was evaluated inside the fade-in window of a
\* ripple, where it is strictly between 0 and 1.
C29_Witness ==
  /\ envOut # << >>
  /\ envVariant = "useGridEffectsManager"
  /\ envKind = "ripple"
  /\ envElapsed = 100
  /\ envOut[1][1] > 0
  /\ envOut[1][1] < envOut[1][2]

\* C30: a turning energy pulse makes at most one turn in its lifetime: once
\* hasTurned is true it stays true and the pulse's line never changes again,
\* whatever the frames and the values of Math.random().
C30_AtMostOneTurn ==
  /\ [](\A k \in 1..Len(turnPulses) :
          /\ turnPulses[k].turns <= 1
          /\ turnPulses[k].hasTurned <=> turnPulses[k].turns = 1)
  /\ [][\A i \in 1..Len(turnPulses) : \A j \in 1..Len(turnPulses') :
          (turnPulses[i].ref = turnPulses'[j].ref /\ turnPulses[i].hasTurned)
            => /\ turnPulses'[j].hasTurned
               /\ turnPulses'[j].line = turnPulses[i].line]_vars

\* a pulse that has turned is at an intersection again, where only its
\* hasTurned keeps the filter from drawing for a turn
C30_Witness ==
  \E k \in 1..Len(turnPulses) :
    /\ turnPulses[k].hasTurned
    /\ Len(findIntersectingLines(turnPulses[k].position, turnPulses[k].line,
                                 turnProps.gridLines)) > 0

\* C31: in the fraction-based EnergyPulses a frame that turns a pulse does not
\* keep the original: it replaces it by exactly one turned pulse, so a frame
\* never increases the number of pulses.
C31_TurnReplacesThePulse ==
  [][spawns' = spawns => Len(pulsesRef') <= Len(pulsesRef)]_vars

\* C32: in the spawn-rate EnergyPulses the number of concurrent pulses never
\* exceeds maxPulses, however frame callbacks, state updates and renders
\* interleave.
C32_PoolWithinMaxPulses ==
  turnProps.variant = "timer" => Len(turnPulses) <= turnProps.maxPulses

\* The vertical pulses of the pool that are no children.
VerticalParents == SelectSeq(cpulses, LAMBDA pulse : pulse.isVertical /\ ~pulse.isChild)

\* C33: in the constant-count EnergyPulsesV activeVerticalPulses always equals
\* the number of non-child vertical pulses in the pool and stays within
\* 0..TARGET_VERTICAL_PULSES, across spawns, removals and frames.
C33_CounterMatchesVerticalPulses ==
  /\ activeVerticalPulses = Len(VerticalParents)
  /\ activeVerticalPulses \in 0..TARGET_VERTICAL_PULSES

\* a frame has removed a vertical pulse: two are left, each older than one
\* frame, beside a child
C33_Witness ==
  /\ activeVerticalPulses = 2
  /\ \A k \in 1..Len(VerticalParents) : VerticalParents[k].lineFraction >= 75
  /\ \E k \in 1..Len(cpulses) : cpulses[k].isChild

C35_CooldownRests ==
  [][/\ (/\ managerTime' >= effectStartTime + currentEffect.duration
          /\ managerTime' < nextEffectTime)
        => /\ managerResult' = [brightnessFactor |-> 200, emissiveFactor |-> 100]
           /\ currentEffect' = currentEffect
           /\ effectStartTime' = effectStartTime
           /\ nextEffectTime' = nextEffectTime
     /\ (currentEffect' # currentEffect \/ effectStartTime' # effectStartTime)
        => /\ managerTime' >= effectStartTime + currentEffect.duration
                                + currentEffect.cooldown
           /\ currentEffect'.id # currentEffect.id]_vars

\* a call in the cooldown of an effect the manager switched to
C35_Witness ==
  /\ effectStartTime > 0
  /\ managerTime >= effectStartTime + currentEffect.duration
  /\ managerTime < nextEffectTime
  /\ managerResult = RestingFactors

\* C36: in GridEffects the gate is held exactly when one gate-release timer
\* is pending; there is never more than one pending release timer, and the
\* timer that fires is the one the effect holding the gate scheduled, so it
\* never clears the gate of a later effect.
C36_GateHeldIffOneTimer ==
  /\ [](Len(timers) <= 1 /\ (isPlayingRef <=> Len(timers) = 1))
  /\ [][lastOp' = "release"
          => /\ isPlayingRef
             /\ Len(timers) = 1
             /\ timers' = << >>
             /\ ~isPlayingRef']_vars

\* the release timer of an admission has fired after an earlier admission
\* was released
C36_Witness ==
  /\ lastOp = "release"
  /\ ~isPlayingRef
  /\ timers = << >>
  /\ Len(activeEffects) >= 1
  /\ mono > effectInterval + NeonPulseDuration

\* C37: the regular-pulse trigger of IndependentGridEffects is incremented
\* only while the regular gate is clear, the gate is then held for 2000 ms
\* and the next trigger is scheduled only after the release: two regular
\* triggers are never less than 2000 + 3000 ms apart, and at most one timer
\* of the regular chain is pending at any time.
C37_RegularTriggersSpaced ==
  /\ [](Len(SelectSeq(indepTimers, LAMBDA t : t.chain = "regular")) <= 1)
  /\ [][regularPulseTrigger' # regularPulseTrigger \/ indepOp' = "regularTrigger"
          => /\ ~isRegularActiveRef
             /\ isRegularActiveRef'
             /\ sinceRegular >= 2000 + 3000]_vars
  /\ [][(isRegularActiveRef /\ ~isRegularActiveRef' /\ indepMounted')
          => /\ sinceRegular >= 2000
             /\ \E i \in 1..Len(indepTimers') :
                  /\ indepTimers'[i].chain = "regular"
                  /\ indepTimers'[i].kind = "trigger"
                  /\ indepTimers'[i].left >= 3000]_vars

\* the regular trigger has fired a second time, 5000 ms after the first
C37_Witness ==
  /\ indepMounted
  /\ regularPulseTrigger = 2
  /\ indepOp = "regularTrigger"
  /\ isRegularActiveRef

\* C38: while IndependentGridEffects stays mounted both trigger chains run
\* forever: the regular and the vertical trigger are each incremented again
\* and again, given that timers eventually fire.
C38_ChainsRunForever ==
  /\ []<>(~indepMounted \/ indepOp = "regularTrigger")
  /\ []<>(~indepMounted \/ indepOp = "verticalTrigger")

\* the vertical trigger has fired a second time with the component mounted
C38_Witness ==
  /\ indepMounted
  /\ verticalPulseTrigger = 2
  /\ indepOp = "verticalTrigger"
  /\ regularPulseTrigger # 0

\* C39: after IndependentGridEffects has unmounted no trigger fires again:
\* neither counter is incremented and no timer callback that was pending at
\* the unmount schedules a new timer.
C39_NothingAfterUnmount ==
  [][~indepMounted
      => /\ regularPulseTrigger' = regularPulseTrigger
         /\ verticalPulseTrigger' = verticalPulseTrigger
         /\ indepOp' \notin {"regularTrigger", "verticalTrigger"}
         /\ Len(indepTimers') < Len(indepTimers) \/ indepTimers' = indepTimers]_vars

\* C40: the number of waves useLineWaveEffect holds in state never exceeds
\* maxWaves, for every interleaving of interval spawns, frame updates and
\* re-renders.
C40_WavesWithinMaxWaves == Len(waves) <= waveOptions.maxWaves

====
